---- MODULE Spec2Model ----
(***************************************************************************)
(* helmet: resolution of a profile-based deployment descriptor into a      *)
(* skaffold configuration (src/bin/helmet.js, src/schema.js).              *)
(*                                                                         *)
(* Strings are sequences of one-character strings, so that the string      *)
(* functions of the program (startsWith, substr, replace, match) are       *)
(* computed character by character.  Objects are functions from keys to    *)
(* values; an absent property is a key outside the DOMAIN.  Objects whose  *)
(* iteration order matters (profiles, projects, deployments, the CLI       *)
(* override mapping) are sequences of entries [name, body].                *)
(***************************************************************************)
EXTENDS Integers, Sequences, FiniteSets, TLC

VARIABLES
    pc,         \* position of the run: which middleware comes next
    document,   \* the document as yaml.safeLoad read it from disk
    file,       \* argv.file: the document once validated, with the defaults
    cli,        \* argv.profile / argv.option / argv.metadata / argv.project as given
    vcs,        \* stdout of the four git queries
    template,   \* argv.template.variables
    profile,    \* argv.profile once the profile is loaded
    overridden, \* argv.profile.projects at helmet.js:539 (after the override loop)
    skaffold,   \* argv.skaffold
    error,      \* the error a middleware threw
    call,       \* arguments of a direct call of a function or filter
    ret,        \* what that call returned
    spawned,    \* the command line and the input given to skaffold
    tasks,      \* per project: the renders still to do, the one in flight first
    git         \* the git queries that have settled, in the order awaited

vars == <<pc, document, file, cli, vcs, template, profile, overridden, skaffold, error, call, ret,
          spawned, tasks, git>>

(***************************************************************************)
(* Bounds                                                                  *)
(***************************************************************************)
MaxRepoSegs == 3
MaxImageSegs == 3
MaxSafeLen == 3

(***************************************************************************)
(* Characters and strings                                                  *)
(***************************************************************************)
Lower == {"a","b","c","d","e","f","g","h","i","j","k","l","m",
          "n","o","p","q","r","s","t","u","v","w","x","y","z"}
Upper == {"A","B","C","D","E","F","G","H","I","J","K","L","M",
          "N","O","P","Q","R","S","T","U","V","W","X","Y","Z"}

None == <<"\\none">>   \* undefined / null: no string of the model equals it

startsWith(s, p) == Len(p) <= Len(s) /\ SubSeq(s, 1, Len(p)) = p

substr(s, start) == SubSeq(s, start + 1, Len(s))

RECURSIVE Join(_, _)
Join(segs, sep) ==
    IF Len(segs) = 0 THEN <<>>
    ELSE IF Len(segs) = 1 THEN segs[1]
    ELSE segs[1] \o sep \o Join(Tail(segs), sep)

RECURSIVE SeqsUpTo(_, _)
SeqsUpTo(S, n) ==
    IF n = 0 THEN {<<>>}
    ELSE LET shorter == SeqsUpTo(S, n - 1)
         IN  shorter \cup {Append(s, x) : s \in shorter, x \in S}

(***************************************************************************)
(* liquid filter 'safe'                                                    *)
(***************************************************************************)
\* the character class [a-zA-Z0-1-_] of the filter's regular expression
SafeClass == Lower \cup Upper \cup {"0", "1", "-", "_"}

\* (value || '').replace(/^[a-zA-Z0-1-_]/g, '_'): the pattern is anchored at
\* the start of the string, so at most the first character is replaced, and
\* only when it IS in the class.
safe(value) ==
    LET v == IF value = None THEN <<>> ELSE value
    IN  IF Len(v) > 0 /\ v[1] \in SafeClass
        THEN <<"_">> \o Tail(v)
        ELSE v

(***************************************************************************)
(* buildImageName                                                          *)
(***************************************************************************)
GcrIo == <<"g","c","r",".","i","o">>

GcrClass == Lower \cup Upper \cup {"-", "_"}    \* [a-zA-Z-_]

\* length of the longest run of GcrClass characters of s starting at index i
RECURSIVE RunLen(_, _)
RunLen(s, i) ==
    IF i <= Len(s) /\ s[i] \in GcrClass THEN 1 + RunLen(s, i + 1) ELSE 0

\* s.match(/^gcr\.io\/[a-zA-Z-_]+\//): the matched text, '' when there is no
\* match.  The class holds no '/', so the greedy run must be followed by '/'.
MatchGcrPrefix(s) ==
    LET head == GcrIo \o <<"/">>
        run  == RunLen(s, Len(head) + 1)
        stop == Len(head) + run + 1
    IN  IF startsWith(s, head) /\ run >= 1 /\ stop <= Len(s) /\ s[stop] = "/"
        THEN SubSeq(s, 1, stop)
        ELSE <<>>

\* originalImage.replace(/[\/._:@]/g, '_')
ReplaceSeparators(s) ==
    [i \in 1..Len(s) |-> IF s[i] \in {"/", ".", "_", ":", "@"} THEN "_" ELSE s[i]]

\* a plausible slip: the image is appended as it is
buildImageName_NoReplace(defaultRepo, originalImage) ==
    IF defaultRepo = <<>> THEN originalImage
    ELSE defaultRepo \o <<"/">> \o originalImage

\* a plausible slip: every prefix is treated like a gcr.io one
buildImageName_AnyRegistry(defaultRepo, originalImage) ==
    IF defaultRepo = <<>> THEN originalImage
    ELSE IF startsWith(originalImage, defaultRepo) THEN originalImage
    ELSE defaultRepo \o <<"/">> \o originalImage

buildImageName(defaultRepo, originalImage) ==
    IF defaultRepo = <<>> THEN originalImage
    ELSE IF startsWith(defaultRepo, GcrIo) THEN
        LET originalPrefix    == MatchGcrPrefix(originalImage)
            defaultRepoPrefix == MatchGcrPrefix(defaultRepo)
        IN  IF originalPrefix = defaultRepoPrefix
            THEN defaultRepo \o <<"/">> \o substr(originalImage, Len(originalPrefix))
            ELSE IF startsWith(originalImage, defaultRepo) THEN originalImage
            ELSE defaultRepo \o <<"/">> \o originalImage
    ELSE defaultRepo \o <<"/">> \o ReplaceSeparators(originalImage)

(***************************************************************************)
(* Objects                                                                 *)
(***************************************************************************)
\* Objects iterated in insertion order: sequences of [name, body]
NameSet(om) == {om[i].name : i \in 1..Len(om)}

Has(om, n) == n \in NameSet(om)

IndexOf(om, n) == CHOOSE i \in 1..Len(om) : om[i].name = n

Get(om, n) == om[IndexOf(om, n)].body

Put(om, n, b) ==
    IF Has(om, n) THEN [om EXCEPT ![IndexOf(om, n)].body = b]
    ELSE Append(om, [name |-> n, body |-> b])

\* Object.prototype.toNamedArray / injectName are enumerable properties of
\* Object.prototype, so the `in` operator finds them on every object.
ObjectPrototypeKeys == {<<"toNamedArray">>, <<"injectName">>}

\* key in obj
HasProperty(obj, key) == key \in DOMAIN obj \/ key \in ObjectPrototypeKeys

(***************************************************************************)
(* _.merge, per entity.  A source property replaces a scalar, is merged    *)
(* into an object, and is added when the destination has none.             *)
(***************************************************************************)
\* values trees: [str: template] | [num] | [bool] | [null] | [text: chars] |
\*               [arr: sequence of values] | [obj: key -> value]
IsObj(v) == DOMAIN v = {"obj"}
IsArr(v) == DOMAIN v = {"arr"}

RECURSIVE MergeValue(_, _)
MergeValue(a, b) ==
    IF IsObj(a) /\ IsObj(b) THEN
        [obj |-> [k \in DOMAIN a.obj \cup DOMAIN b.obj |->
                    IF k \notin DOMAIN b.obj THEN a.obj[k]
                    ELSE IF k \notin DOMAIN a.obj THEN b.obj[k]
                    ELSE MergeValue(a.obj[k], b.obj[k])]]
    ELSE IF IsArr(a) /\ IsArr(b) THEN
        [arr |-> [i \in 1..(IF Len(a.arr) > Len(b.arr) THEN Len(a.arr) ELSE Len(b.arr)) |->
                    IF i > Len(b.arr) THEN a.arr[i]
                    ELSE IF i > Len(a.arr) THEN b.arr[i]
                    ELSE MergeValue(a.arr[i], b.arr[i])]]
    ELSE b

\* metadata trees: [leaf: chars] | [map: key -> tree]; a key is the sequence
\* of the dot-separated segments of its name
IsMap(v) == DOMAIN v = {"map"}

RECURSIVE MergeMetadata(_, _)
MergeMetadata(a, b) ==
    [k \in DOMAIN a \cup DOMAIN b |->
        IF k \notin DOMAIN b THEN a[k]
        ELSE IF k \notin DOMAIN a THEN b[k]
        ELSE IF IsMap(a[k]) /\ IsMap(b[k])
             THEN [map |-> MergeMetadata(a[k].map, b[k].map)]
             ELSE b[k]]

\* objects whose properties are scalars
MergeFlat(a, b) == b @@ a

MergeDeployment(a, b) ==
    [k \in DOMAIN a \cup DOMAIN b |->
        IF k \notin DOMAIN b THEN a[k]
        ELSE IF k \notin DOMAIN a THEN b[k]
        ELSE IF k = "values" THEN MergeValue(a[k], b[k])
        ELSE b[k]]

RECURSIVE MergeDeployments(_, _)
MergeDeployments(a, b) ==
    IF b = <<>> THEN a
    ELSE LET e == Head(b)
         IN  MergeDeployments(
                 IF Has(a, e.name)
                 THEN Put(a, e.name, MergeDeployment(Get(a, e.name), e.body))
                 ELSE Append(a, e),
                 Tail(b))

MergeProject(a, b) ==
    [k \in DOMAIN a \cup DOMAIN b |->
        IF k \notin DOMAIN b THEN a[k]
        ELSE IF k \notin DOMAIN a THEN b[k]
        ELSE IF k = "deployments" THEN MergeDeployments(a[k], b[k])
        ELSE IF k = "values" THEN MergeValue(a[k], b[k])
        ELSE IF k \in {"image", "sync"} THEN MergeFlat(a[k], b[k])
        ELSE b[k]]

RECURSIVE MergeProjects(_, _)
MergeProjects(a, b) ==
    IF b = <<>> THEN a
    ELSE LET e == Head(b)
         IN  MergeProjects(
                 IF Has(a, e.name)
                 THEN Put(a, e.name, MergeProject(Get(a, e.name), e.body))
                 ELSE Append(a, e),
                 Tail(b))

MergeProfile(a, b) ==
    [k \in DOMAIN a \cup DOMAIN b |->
        IF k \notin DOMAIN b THEN a[k]
        ELSE IF k \notin DOMAIN a THEN b[k]
        ELSE IF k = "options" THEN MergeFlat(a[k], b[k])
        ELSE IF k = "metadata" THEN MergeMetadata(a[k], b[k])
        ELSE IF k = "projects" THEN MergeProjects(a[k], b[k])
        ELSE b[k]]

(***************************************************************************)
(* Templates.  A template string is kept as the sequence of its parts:     *)
(* plain text, an output {{ path | filters }}, {% if path %}text{% endif %} *)
(* and {% meta path %}.  A path is the sequence of its dot-separated       *)
(* segments.                                                               *)
(***************************************************************************)
Text(s) == [t |-> "text", s |-> s]
Out(path, filters) == [t |-> "out", path |-> path, filters |-> filters]
IfTag(path, s) == [t |-> "if", path |-> path, s |-> s]
Meta(path) == [t |-> "meta", path |-> path]

EmptyObject == [k \in {} |-> k]

\* values of the template language
Str(v) == [k |-> "str", v |-> v]
Bool(b) == [k |-> "bool", b |-> b]
Nil == [k |-> "nil"]
ObjectValue == [k |-> "obj"]
FunctionValue == [k |-> "fn"]

ShortSize == 8

TrueText == <<"t","r","u","e">>
FalseText == <<"f","a","l","s","e">>
NullText == <<"n","u","l","l">>
DirtySuffix == <<"-","d","i","r","t","y">>

\* what the engine writes for a value
ToOutput(val) ==
    CASE val.k = "str"  -> val.v
      [] val.k = "bool" -> IF val.b THEN TrueText ELSE FalseText
      [] val.k = "nil"  -> <<>>
      [] val.k = "obj"  -> <<"[object Object]">>
      [] val.k = "fn"   -> <<"[function]">>

Field(obj, key) == IF key \in DOMAIN obj THEN Str(obj[key]) ELSE Nil

OrNil(v) == IF v = None THEN Nil ELSE Str(v)

\* scope.get(path) on _.merge({}, this.variables, values)
Lookup(path, ctx) ==
    CASE Len(path) = 6 /\ path[1] = "profile" /\ path[2] = "projects"
                      /\ path[4] = "deployments" ->
            \* profile.projects.<project>.deployments.<deployment>.<field>
            IF Has(ctx.profile.projects, path[3])
               /\ "deployments" \in DOMAIN Get(ctx.profile.projects, path[3])
               /\ Has(Get(ctx.profile.projects, path[3]).deployments, path[5])
            THEN Field(Get(Get(ctx.profile.projects, path[3]).deployments, path[5]), path[6])
            ELSE Nil
      [] path = <<"user">>             -> Str(ctx.vars.user)
      [] path = <<"timestamp">>        -> Str(ctx.vars.timestamp)
      [] path = <<"git", "tag">>       -> OrNil(ctx.vars.git.tag)
      [] path = <<"git", "commit">>    -> OrNil(ctx.vars.git.commit)
      [] path = <<"git", "branch">>    -> Str(ctx.vars.git.branch)
      [] path = <<"git", "dirty">>     -> Bool(ctx.vars.git.dirty)
      [] path = <<"profile", "name">>  -> Str(ctx.profile.name)
      [] path = <<"profile", "options", "repository">> ->
            Field(ctx.profile.options, "repository")
      [] path = <<"profile", "options", "tag">> ->
            Field(ctx.profile.options, "tag")
      [] path = <<"project", "name">>  -> Field(ctx.project, "name")
      [] path = <<"project", "image", "name">> ->
            IF "image" \in DOMAIN ctx.project
            THEN Field(ctx.project.image, "name") ELSE Nil
      [] path = <<"project", "image", "fqin">> ->
            IF "image" \in DOMAIN ctx.project
            THEN Field(ctx.project.image, "fqin") ELSE Nil
      [] path = <<"deployment", "name">>      -> Field(ctx.deployment, "name")
      [] path = <<"deployment", "namespace">> -> Field(ctx.deployment, "namespace")
      [] path = <<"deployment", "release">>   -> Field(ctx.deployment, "release")
      [] path = <<"deployment", "chart">>     -> Field(ctx.deployment, "chart")
      [] path = <<"deployment", "recreate">>  ->
            IF "recreate" \in DOMAIN ctx.deployment
            THEN Bool(ctx.deployment.recreate) ELSE Nil
      [] OTHER -> Nil

\* liquid truth: only false, null and undefined are falsy
Truthy(val) == ~(val.k = "nil" \/ (val.k = "bool" /\ ~val.b))

ApplyFilter(f, val, ctx) ==
    CASE f.f = "default" -> IF Truthy(val) THEN val ELSE Lookup(f.arg, ctx)
      [] f.f = "short" ->
            LET v == IF val.k = "str" THEN val.v ELSE <<>>
            IN  Str(SubSeq(v, 1, IF Len(v) < ShortSize THEN Len(v) ELSE ShortSize))
      [] f.f = "safe" -> Str(safe(IF val.k = "str" THEN val.v ELSE None))

RECURSIVE ApplyFilters(_, _, _)
ApplyFilters(fs, val, ctx) ==
    IF fs = <<>> THEN val
    ELSE ApplyFilters(Tail(fs), ApplyFilter(Head(fs), val, ctx), ctx)

\* liquid.evalValue(`profile.metadata.${path}`, scope): the path is read
\* segment by segment; a missing property gives undefined
RECURSIVE EvalMetadata(_, _)
EvalMetadata(tree, segs) ==
    IF segs = <<>> THEN (IF IsMap(tree) THEN ObjectValue ELSE Str(tree.leaf))
    ELSE IF ~IsMap(tree) THEN Nil
    ELSE IF <<Head(segs)>> \in DOMAIN tree.map
         THEN EvalMetadata(tree.map[<<Head(segs)>>], Tail(segs))
    ELSE IF <<Head(segs)>> \in ObjectPrototypeKeys /\ Len(segs) = 1 THEN FunctionValue
    ELSE Nil

Ok(out) == [ok |-> TRUE, out |-> out]
Fail(err) == [ok |-> FALSE, err |-> err]

\* liquid.registerTag('meta'): render
MetaTag(path, ctx) ==
    IF HasProperty(ctx.profile.metadata, path)
    THEN Ok(ToOutput(EvalMetadata([map |-> ctx.profile.metadata], path)))
    ELSE Fail([type |-> "MissingMetadata", path |-> path])

RenderPart(part, ctx) ==
    CASE part.t = "text" -> Ok(part.s)
      [] part.t = "out"  -> Ok(ToOutput(ApplyFilters(part.filters, Lookup(part.path, ctx), ctx)))
      [] part.t = "if"   -> Ok(IF Truthy(Lookup(part.path, ctx)) THEN part.s ELSE <<>>)
      [] part.t = "meta" -> MetaTag(part.path, ctx)

Emit(acc, r) == IF r.ok THEN Ok(acc.out \o r.out) ELSE r

\* the parts are rendered in order; the first failure is the template's
RECURSIVE RenderParts(_, _, _)
RenderParts(parts, ctx, acc) ==
    IF ~acc.ok \/ parts = <<>> THEN acc
    ELSE RenderParts(Tail(parts), ctx, Emit(acc, RenderPart(Head(parts), ctx)))

\* template.renderTemplate(template, values) without convert
renderTemplate(tpl, ctx) == RenderParts(tpl, ctx, Ok(<<>>))

Digits == {"0","1","2","3","4","5","6","7","8","9"}

\* the JSON texts the model decodes: true, false, null, integers and strings
\* without escapes.  Every rendered text of the model that is none of these
\* is no JSON text at all.
IsJsonInteger(s) ==
    LET body == IF Len(s) > 0 /\ s[1] = "-" THEN Tail(s) ELSE s
    IN  /\ Len(body) > 0
        /\ \A i \in 1..Len(body) : body[i] \in Digits
        /\ (Len(body) > 1 => body[1] # "0")

IsJsonString(s) ==
    /\ Len(s) >= 2
    /\ s[1] = "\"" /\ s[Len(s)] = "\""
    /\ \A i \in 2..(Len(s) - 1) : s[i] \notin {"\"", "\\"}

\* try { return JSON.parse(result) } catch (err) { return result }
JsonParseOrText(s) ==
    IF s = TrueText THEN [bool |-> TRUE]
    ELSE IF s = FalseText THEN [bool |-> FALSE]
    ELSE IF s = NullText THEN [null |-> TRUE]
    ELSE IF IsJsonInteger(s) THEN [num |-> s]
    ELSE IF IsJsonString(s) THEN [text |-> SubSeq(s, 2, Len(s) - 1)]
    ELSE [text |-> s]

\* template.renderObject(obj, values, true)
Converted(r) == IF r.ok THEN Ok(JsonParseOrText(r.out)) ELSE r

\* Promise.all over the rendered entries: the value, or a rejection
Collected(tag, rs) ==
    IF \A k \in DOMAIN rs : rs[k].ok
    THEN Ok(tag :> [k \in DOMAIN rs |-> rs[k].out])
    ELSE rs[CHOOSE k \in DOMAIN rs : ~rs[k].ok]

RECURSIVE renderObject(_, _)
renderObject(v, ctx) ==
    CASE DOMAIN v = {"str"} -> Converted(renderTemplate(v.str, ctx))
      [] DOMAIN v = {"arr"} ->
            Collected("arr", [i \in 1..Len(v.arr) |-> renderObject(v.arr[i], ctx)])
      [] DOMAIN v = {"obj"} ->
            Collected("obj", [k \in DOMAIN v.obj |-> renderObject(v.obj[k], ctx)])
      [] DOMAIN v = {"null"} -> Fail([type |-> "TypeError"])   \* Object.entries(null)
      [] OTHER -> Ok(v)                                        \* Object.entries(5) is []

(***************************************************************************)
(* Schema (src/schema.js, the later definition) and its validator          *)
(***************************************************************************)
DefaultReleaseTemplate == <<Out(<<"deployment", "name">>, <<>>)>>
DefaultNamespaceTemplate == <<Out(<<"deployment", "namespace">>, <<>>)>>

\* IDeployment: recreate defaults to false
IDeployment(d) == d @@ ("recreate" :> FALSE)

\* IProject: no defaults of its own
IProject(p) ==
    IF "deployments" \in DOMAIN p
    THEN [p EXCEPT !.deployments =
            [i \in 1..Len(@) |-> [name |-> @[i].name, body |-> IDeployment(@[i].body)]]]
    ELSE p

\* IOptions: release and namespace default to templates
IOptions(o) ==
    o @@ ("release" :> DefaultReleaseTemplate) @@ ("namespace" :> DefaultNamespaceTemplate)

\* IProfile: default, options and metadata have defaults
IProfile(b) ==
    LET withProjects ==
            IF "projects" \in DOMAIN b
            THEN [b EXCEPT !.projects =
                    [i \in 1..Len(@) |-> [name |-> @[i].name, body |-> IProject(@[i].body)]]]
            ELSE b
        opts == IF "options" \in DOMAIN b THEN b.options ELSE EmptyObject
    IN  ("options" :> IOptions(opts))
            @@ withProjects @@ ("default" :> FALSE) @@ ("metadata" :> EmptyObject)

\* the document with the defaults the validator (useDefaults) writes into it
WithDefaults(doc) ==
    [profiles |-> [i \in 1..Len(doc.profiles) |->
        [name |-> doc.profiles[i].name, body |-> IProfile(doc.profiles[i].body)]]]

\* the constraints of the schema the documents of the model can break:
\* projects has at least one property, an image has a name
Valid(doc) ==
    \A i \in 1..Len(doc.profiles) :
        LET b == doc.profiles[i].body
        IN  "projects" \in DOMAIN b =>
                /\ Len(b.projects) >= 1
                /\ \A j \in 1..Len(b.projects) :
                      "image" \in DOMAIN b.projects[j].body =>
                          "name" \in DOMAIN b.projects[j].body.image

(***************************************************************************)
(* minimatch(name, pattern, { noglobstar: true }) for patterns made of     *)
(* literal characters, '*' and '?'                                         *)
(***************************************************************************)
RECURSIVE GlobMatch(_, _)
GlobMatch(name, pat) ==
    IF pat = <<>> THEN name = <<>>
    ELSE IF Head(pat) = "*" THEN
        \/ GlobMatch(name, Tail(pat))
        \/ (name # <<>> /\ Head(name) # "/" /\ GlobMatch(Tail(name), pat))
    ELSE IF Head(pat) = "?" THEN
        name # <<>> /\ Head(name) # "/" /\ GlobMatch(Tail(name), Tail(pat))
    ELSE name # <<>> /\ Head(name) = Head(pat) /\ GlobMatch(Tail(name), Tail(pat))

\* a plausible slip: the pattern is compared as a literal name
minimatch_Literal(name, pat) == name = pat

\* a wildcard at the start of the pattern does not match a leading dot
minimatch(name, pat) ==
    IF name # <<>> /\ Head(name) = "." /\ pat # <<>> /\ Head(pat) \in {"*", "?"}
    THEN FALSE
    ELSE GlobMatch(name, pat)

(***************************************************************************)
(* The run: coerceFile and the four middlewares, in the order yargs runs   *)
(* them.  An error thrown by any of them ends the run (yargs.fail).        *)
(***************************************************************************)
NoError == [type |-> "none"]

\* skaffold was not started
NotSpawned == [args |-> <<>>, input |-> EmptyObject]

UserName == <<"r","o","o","t">>
Timestamp == <<"T">>

Ctx(variables, prof, project, deployment) ==
    [vars |-> variables, profile |-> prof, project |-> project, deployment |-> deployment]

AllOk(rs) == \A i \in 1..Len(rs) : rs[i].ok

FirstBad(rs) == rs[CHOOSE i \in 1..Len(rs) : ~rs[i].ok /\ \A j \in 1..(i - 1) : rs[j].ok]

Outs(rs) == [i \in 1..Len(rs) |-> rs[i].out]

\* ---- Load profile (helmet.js:428-519) ----
IsBaseName(name) == startsWith(name, <<"$">>)

\* variant: no profile is taken as the base
BaseProfiles_None(doc) == SelectSeq(doc.profiles, LAMBDA e : FALSE)

BaseProfiles(doc) == SelectSeq(doc.profiles, LAMBDA e : IsBaseName(e.name))

\* a plausible slip: the default flag is not looked at
DefaultProfiles_Unfiltered(doc) == doc.profiles

DefaultProfiles(doc) == SelectSeq(doc.profiles, LAMBDA e : e.body.default)

DefaultTagTemplate ==
    << Out(<<"git", "tag">>, <<[f |-> "default", arg |-> <<"git", "commit">>], [f |-> "short"]>>),
       IfTag(<<"git", "dirty">>, DirtySuffix) >>

defaultValues ==
    [options |-> [push |-> TRUE, cleanup |-> TRUE, forward |-> TRUE,
                  repository |-> <<>>, tag |-> DefaultTagTemplate],
     projects |-> <<>>]

InjectNameChars == <<"i","n","j","e","c","t","N","a","m","e">>
ToNamedArrayChars == <<"t","o","N","a","m","e","d","A","r","r","a","y">>

\* argv.profile in argv.file.profiles
ProfileDefined(doc, name) ==
    Has(doc.profiles, name) \/ name \in {InjectNameChars, ToNamedArrayChars}

\* argv.profile || defaultProfile
SelectedName(doc, requested) ==
    IF requested = None \/ requested = <<>>
    THEN DefaultProfiles(doc)[1].name
    ELSE requested

\* _.merge({}, defaultValues, baseProfile, profiles[name], { name }); delete default
Without(obj, key) == [k \in DOMAIN obj \ {key} |-> obj[k]]

\* Object.values(profiles).find(...) || {}, profiles[name]
BodyOf(found) == IF found = <<>> THEN EmptyObject ELSE found[1].body

MergeAll(layers) ==
    MergeProfile(MergeProfile(MergeProfile(layers[1], layers[2]), layers[3]), layers[4])

MergedProfile(doc, name) ==
    Without(MergeAll(<< defaultValues,
                        BodyOf(BaseProfiles(doc)),
                        BodyOf(SelectSeq(doc.profiles, LAMBDA e : e.name = name)),
                        [name |-> name] >>),
            "default")

\* a plausible slip: the CLI values fill in only what the profile lacks
WithCli_ProfileFirst(p, args) ==
    ("options" :> MergeFlat(args.option, p.options))
        @@ ("metadata" :> MergeMetadata(
                args.metadata,
                IF "metadata" \in DOMAIN p THEN p.metadata ELSE EmptyObject))
        @@ p

\* merge options and metadata from cli arguments
WithCli(p, args) ==
    ("options" :> MergeFlat(p.options, args.option))
        @@ ("metadata" :> MergeMetadata(
                IF "metadata" \in DOMAIN p THEN p.metadata ELSE EmptyObject,
                args.metadata))
        @@ p

\* Object.prototype.injectName
injectName(deployments) ==
    [i \in 1..Len(deployments) |->
        [name |-> deployments[i].name,
         body |-> MergeDeployment([name |-> deployments[i].name], deployments[i].body)]]

Missing(obj, key) == key \notin DOMAIN obj \/ obj[key] = <<>>

\* the body of the forEach over the projects
PrepareProject(name, project) ==
    IF "deployments" \notin DOMAIN project
    THEN Fail([type |-> "TypeError", project |-> name])
    ELSE IF "image" \in DOMAIN project /\ Missing(project.image, "name")
    THEN Fail([type |-> "MissingImageName", project |-> name])
    ELSE IF "image" \in DOMAIN project /\ Missing(project.image, "context")
    THEN Fail([type |-> "MissingImageContext", project |-> name])
    ELSE Ok([MergeProject([name |-> name, values |-> [obj |-> EmptyObject]], project)
                EXCEPT !.deployments = injectName(project.deployments)])

WithProjects(p, bodies) ==
    [p EXCEPT !.projects = [i \in 1..Len(@) |-> [name |-> @[i].name, body |-> bodies[i]]]]

\* the forEach over the projects: the profile, or what the loop threw
Prepared(p, rs) == IF ~AllOk(rs) THEN FirstBad(rs) ELSE Ok(WithProjects(p, Outs(rs)))

\* the tag is rendered, then the projects are prepared
Tagged(p, tag) ==
    IF ~tag.ok THEN tag
    ELSE Prepared([p EXCEPT !.options = [@ EXCEPT !.tag = tag.out]],
                  [i \in 1..Len(p.projects) |->
                      PrepareProject(p.projects[i].name, p.projects[i].body)])

Merged(p, variables) ==
    Tagged(p, renderTemplate(p.options.tag, Ctx(variables, p, EmptyObject, EmptyObject)))

Selected(doc, name, args, variables) ==
    IF ~ProfileDefined(doc, name)
    THEN Fail([type |-> "MissingProfile", name |-> name])
    ELSE Merged(WithCli(MergedProfile(doc, name), args), variables)

LoadProfileResult(doc, args, variables) ==
    IF DefaultProfiles(doc) = <<>> THEN Fail([type |-> "NoDefaultProfile"])
    ELSE Selected(doc, SelectedName(doc, args.profile), args, variables)

\* ---- Normalize project settings passed through cli (helmet.js:524-567) ----
Matching(projects, key) == {n \in NameSet(projects) : minimatch(n, key)}

\* variant: what the project already has is kept
ApplyKey_FirstWins(projects, key, value) ==
    [i \in 1..Len(projects) |->
        IF projects[i].name \in Matching(projects, key)
        THEN [name |-> projects[i].name, body |-> MergeProject(value, projects[i].body)]
        ELSE projects[i]]

\* one round of the loop over the keys: the value is merged into every match
ApplyKey(projects, key, value) ==
    [i \in 1..Len(projects) |->
        IF projects[i].name \in Matching(projects, key)
        THEN [name |-> projects[i].name, body |-> MergeProject(projects[i].body, value)]
        ELSE projects[i]]

\* the loop over Object.keys(argv.project); out is argv.profile.projects when
\* the loop ends or throws
RECURSIVE ApplyOverrides(_, _)
ApplyOverrides(projects, overrides) ==
    IF overrides = <<>> THEN [ok |-> TRUE, out |-> projects]
    ELSE IF Matching(projects, Head(overrides).name) = {}
    THEN [ok |-> FALSE, out |-> projects,
          err |-> [type |-> "NoProjectMatches", pattern |-> Head(overrides).name]]
    ELSE ApplyOverrides(ApplyKey(projects, Head(overrides).name, Head(overrides).body),
                        Tail(overrides))

UndefinedText == <<"u","n","d","e","f","i","n","e","d">>

\* project.image.fqin = `${buildImageName(repository, project.image.name)}:${tag}`
WithFqin(project, options) ==
    IF "image" \notin DOMAIN project THEN Ok(project)
    ELSE IF "name" \in DOMAIN project.image
    THEN Ok([project EXCEPT !.image =
                ("fqin" :> (buildImageName(options.repository, project.image.name)
                              \o <<":">> \o options.tag)) @@ @])
    ELSE IF options.repository = <<>>       \* buildImageName('', undefined) is undefined
    THEN Ok([project EXCEPT !.image = ("fqin" :> (UndefinedText \o <<":">> \o options.tag)) @@ @])
    ELSE Fail([type |-> "TypeError", project |-> project.name])

\* variant: an empty template is rendered as well
Configured_Always(options, key) == key \in DOMAIN options

Configured(options, key) == key \in DOMAIN options /\ options[key] # <<>>

\* deployment[field] = rendered, for every deployment
Assigned(deployments, field, rs) ==
    IF ~AllOk(rs) THEN FirstBad(rs)
    ELSE Ok([i \in 1..Len(deployments) |->
               [name |-> deployments[i].name,
                body |-> (field :> rs[i].out) @@ deployments[i].body]])

\* the passes over the deployments of a project: field := render(options[field]),
\* for the namespaces first, then for the release names
RECURSIVE RenderPasses(_, _, _, _, _)
RenderPasses(deployments, fields, project, prof, variables) ==
    IF ~deployments.ok \/ fields = <<>> THEN deployments
    ELSE RenderPasses(
            IF ~Configured(prof.options, Head(fields)) THEN deployments
            ELSE Assigned(deployments.out, Head(fields),
                    [i \in 1..Len(deployments.out) |->
                        renderTemplate(prof.options[Head(fields)],
                                       Ctx(variables, prof, project, deployments.out[i].body))]),
            Tail(fields), project, prof, variables)

WithDeployments(project, rendered) ==
    IF ~rendered.ok THEN rendered
    ELSE Ok([project EXCEPT !.deployments = rendered.out])

\* variant: the release names are rendered before the namespaces
RenderDeployments_ReleaseFirst(project, prof, variables) ==
    WithDeployments(project,
        RenderPasses(Ok(project.deployments), <<"release", "namespace">>,
                     project, prof, variables))

RenderDeployments(project, prof, variables) ==
    WithDeployments(project,
        RenderPasses(Ok(project.deployments), <<"namespace", "release">>,
                     project, prof, variables))

\* the middleware from its second loop on, or what it threw
Thrown(rs, loop) == [ok |-> FALSE, err |-> FirstBad(rs).err, loop |-> loop]

Rendered(p, rs, loop) ==
    IF ~AllOk(rs) THEN Thrown(rs, loop)
    ELSE [ok |-> TRUE, out |-> WithProjects(p, Outs(rs)), loop |-> loop]

RenderProjects(p, variables, loop) ==
    Rendered(p,
             [i \in 1..Len(p.projects) |-> RenderDeployments(p.projects[i].body, p, variables)],
             loop)

Qualified(p, fq, variables, loop) ==
    IF ~AllOk(fq) THEN Thrown(fq, loop)
    ELSE RenderProjects(WithProjects(p, Outs(fq)), variables, loop)

Looped(p, loop, variables) ==
    IF ~loop.ok THEN [ok |-> FALSE, err |-> loop.err, loop |-> loop.out]
    ELSE Qualified([p EXCEPT !.projects = loop.out],
                   [i \in 1..Len(loop.out) |-> WithFqin(loop.out[i].body, p.options)],
                   variables, loop.out)

\* out: the profile; loop: argv.profile.projects when the override loop ended
NormalizeResult(p, args, variables) ==
    Looped(p, ApplyOverrides(p.projects, args.project), variables)

\* ---- Build skaffold config definition (helmet.js:572-622) ----
Prop(key, obj, field) == IF field \in DOMAIN obj THEN key :> obj[field] ELSE EmptyObject

Artifact(project) ==
    Prop("image", project.image, "name")
        @@ Prop("context", project.image, "context")
        @@ ("sync" :> (IF "sync" \in DOMAIN project THEN project.sync ELSE EmptyObject))

WithOverrides(deployment, ov) ==
    IF ~ov.ok THEN ov
    ELSE Ok(Prop("name", deployment, "release")
              @@ Prop("recreatePods", deployment, "recreate")
              @@ Prop("namespace", deployment, "namespace")
              @@ Prop("chartPath", deployment, "chart")
              @@ ("overrides" :> ov.out))

Release(deployment, project, prof, variables) ==
    WithOverrides(deployment,
        renderObject(IF "values" \in DOMAIN deployment THEN deployment.values
                     ELSE [obj |-> EmptyObject],
                     Ctx(variables, prof, project, deployment)))

\* the deployments of every project, flattened in order
RECURSIVE Flatten(_)
Flatten(projects) ==
    IF projects = <<>> THEN <<>>
    ELSE LET b == Head(projects).body
             ds == IF "deployments" \in DOMAIN b THEN b.deployments ELSE <<>>
         IN  [i \in 1..Len(ds) |-> [project |-> b, deployment |-> ds[i].body]]
                \o Flatten(Tail(projects))

Artifacts(withImage) == [i \in 1..Len(withImage) |-> Artifact(withImage[i].body)]

Config(p, rs) ==
    IF ~AllOk(rs) THEN FirstBad(rs)
    ELSE Ok([apiVersion |-> "skaffold/v1beta4",
             kind |-> "Config",
             push |-> p.options.push,
             tagTemplate |-> <<"{{ .IMAGE_NAME }}", ":">> \o p.options.tag,
             artifacts |-> Artifacts(SelectSeq(p.projects, LAMBDA e : "image" \in DOMAIN e.body)),
             releases |-> Outs(rs)])

Releases(ds, p, variables) ==
    [i \in 1..Len(ds) |-> Release(ds[i].deployment, ds[i].project, p, variables)]

SkaffoldResult(p, variables) == Config(p, Releases(Flatten(p.projects), p, variables))

(***************************************************************************)
(* Actions                                                                 *)
(***************************************************************************)
\* yargs option file: coerce (helmet.js:139-164)
coerceFile ==
    /\ pc = "file"
    /\ IF Valid(document)
       THEN /\ file' = WithDefaults(document)
            /\ pc' = "view"
            /\ error' = error
       ELSE /\ file' = file
            /\ pc' = "failed"
            /\ error' = [type |-> "SchemaError"]
    /\ UNCHANGED <<document, cli, vcs, template, profile, overridden, skaffold, call, ret, spawned, tasks,
                   git>>

\* variant: stdout as it is, without `|| null`
GitVariables_Stdout(out) ==
    [tag    |-> out.tag,
     commit |-> out.commit,
     dirty  |-> Len(out.status) > 0,
     branch |-> out.branch]

\* variables.git (helmet.js:375-380); out: the stdout of the four queries,
\* '' for a query that failed (exec with reject: false resolves)
GitVariables(out) ==
    [tag    |-> IF out.tag = <<>> THEN None ELSE out.tag,
     commit |-> IF out.commit = <<>> THEN None ELSE out.commit,
     dirty  |-> Len(out.status) > 0,
     branch |-> out.branch]

\* middleware: Build view variables (helmet.js:362-423)
BuildViewVariables ==
    /\ pc = "view"
    /\ template' = [user |-> UserName,
                    timestamp |-> Timestamp,
                    git |-> GitVariables(vcs)]
    /\ pc' = "load"
    /\ UNCHANGED <<document, file, cli, vcs, profile, overridden, skaffold, error, call, ret, spawned, tasks,
                   git>>

\* ---- the same middleware, one await at a time (helmet.js:363-366) ----
GitQueries == <<"tag", "commit", "branch", "status">>

\* variant: the first query is enough
Awaited_First(settled) == Len(settled) >= 1

\* the four awaits are behind
Awaited(settled) == Len(settled) = Len(GitQueries)

\* const gitX = await exec('git', [...], { reject: false })
ExecGit ==
    /\ pc = "view"
    /\ ~Awaited(git)
    /\ git' = Append(git, vcs[GitQueries[Len(git) + 1]])
    /\ UNCHANGED <<pc, document, file, cli, vcs, template, profile, overridden, skaffold, error,
                   call, ret, spawned, tasks>>

\* the stdout of the queries; a query not awaited yet has none
Stdout(settled) ==
    [q \in {"tag", "commit", "branch", "status"} |->
        LET i == CHOOSE k \in 1..Len(GitQueries) : GitQueries[k] = q
        IN  IF i <= Len(settled) THEN settled[i] ELSE <<>>]

\* const template = {...}; argv.template = template
SetTemplate ==
    /\ pc = "view"
    /\ Awaited(git)
    /\ template' = [user |-> UserName,
                    timestamp |-> Timestamp,
                    git |-> GitVariables(Stdout(git))]
    /\ pc' = "load"
    /\ UNCHANGED <<document, file, cli, vcs, profile, overridden, skaffold, error, call, ret,
                   spawned, tasks, git>>

\* middleware: Load profile (helmet.js:428-519)
Loads(r) ==
    IF r.ok
    THEN profile' = r.out /\ pc' = "normalize" /\ error' = error
    ELSE profile' = profile /\ pc' = "failed" /\ error' = r.err

LoadProfile ==
    /\ pc = "load"
    /\ Loads(LoadProfileResult(file, cli, template))
    /\ UNCHANGED <<document, file, cli, vcs, template, overridden, skaffold, call, ret, spawned, tasks,
                   git>>

\* variant: a failed normalisation is recorded and the run goes on
Normalized_GoesOn(r) ==
    /\ overridden' = r.loop
    /\ IF r.ok
       THEN profile' = r.out /\ pc' = "skaffold" /\ error' = error
       ELSE profile' = profile /\ pc' = "skaffold" /\ error' = r.err

\* middleware: Normalize project settings passed through cli (helmet.js:524-567)
Normalized(r) ==
    /\ overridden' = r.loop
    /\ IF r.ok
       THEN profile' = r.out /\ pc' = "skaffold" /\ error' = error
       ELSE profile' = profile /\ pc' = "failed" /\ error' = r.err

NormalizeProjects ==
    /\ pc = "normalize"
    /\ Normalized(NormalizeResult(profile, cli, template))
    /\ UNCHANGED <<document, file, cli, vcs, template, skaffold, call, ret, spawned, tasks, git>>

\* ---- the same middleware, one continuation of an await at a time ----
\* (helmet.js:545-566: Promise.all over an async function per project)

\* the middleware up to the Promise.all: the override loop and the fqin loop
Fqins(p, fq, loop) ==
    IF ~AllOk(fq) THEN Thrown(fq, loop)
    ELSE [ok |-> TRUE, out |-> WithProjects(p, Outs(fq)), loop |-> loop]

BeforeRenders(p, loop) ==
    IF ~loop.ok THEN [ok |-> FALSE, err |-> loop.err, loop |-> loop.out]
    ELSE Fqins([p EXCEPT !.projects = loop.out],
               [i \in 1..Len(loop.out) |-> WithFqin(loop.out[i].body, p.options)],
               loop.out)

Pass(prof, project, field) ==
    IF Configured(prof.options, field)
    THEN [i \in 1..Len(project.deployments) |-> [field |-> field, at |-> i]]
    ELSE <<>>

\* the renders one project's function awaits, in its order: the namespaces
\* of its deployments, then their release names
Passes(prof, project) == Pass(prof, project, "namespace") \o Pass(prof, project, "release")

\* renderTemplate is called: _.merge({}, this.variables, values) copies the
\* context at the call (helmet.js:388), so the rendering is that of the
\* profile as it is now, whenever the promise settles
InFlight(prof, variables, i, todo) ==
    [todo |-> todo,
     pending |-> IF todo = <<>> THEN Ok(<<>>)
                 ELSE renderTemplate(prof.options[Head(todo).field],
                         Ctx(variables, prof, prof.projects[i].body,
                             prof.projects[i].body.deployments[Head(todo).at].body))]

\* deployment.namespace = ... / deployment.release = ...
Assign(prof, i, job, out) ==
    [prof EXCEPT !.projects[i].body.deployments[job.at].body = (job.field :> out) @@ @]

Settled(ts) == \A i \in 1..Len(ts) : ts[i].todo = <<>>

Begun(q, ts) ==
    /\ profile' = q
    /\ tasks' = ts
    /\ pc' = IF Settled(ts) THEN "skaffold" ELSE "render"
    /\ error' = error

Stopped(err) ==
    /\ profile' = profile
    /\ tasks' = tasks
    /\ pc' = "failed"
    /\ error' = err

\* every project's function runs up to its first await
Called(q, variables) ==
    [i \in 1..Len(q.projects) |-> InFlight(q, variables, i, Passes(q, q.projects[i].body))]

Begins(r, variables) ==
    /\ overridden' = r.loop
    /\ IF r.ok THEN Begun(r.out, Called(r.out, variables)) ELSE Stopped(r.err)

StartRenders ==
    /\ pc = "normalize"
    /\ Begins(BeforeRenders(profile, ApplyOverrides(profile.projects, cli.project)), template)
    /\ UNCHANGED <<document, file, cli, vcs, template, skaffold, call, ret, spawned, git>>

\* the continuation of project i: the assignment, then the call of the next
\* render
Resumed(prof, variables, ts, i) ==
    [ts EXCEPT ![i] = InFlight(prof, variables, i, Tail(ts[i].todo))]

Continued(prof, i) == Begun(prof, Resumed(prof, template, tasks, i))

\* one awaited render settles; which one is the runtime's choice
CompleteRender ==
    /\ pc = "render"
    /\ \E i \in 1..Len(tasks) :
          /\ tasks[i].todo # <<>>
          /\ IF tasks[i].pending.ok
             THEN Continued(Assign(profile, i, Head(tasks[i].todo), tasks[i].pending.out), i)
             ELSE Stopped(tasks[i].pending.err)
    /\ UNCHANGED <<document, file, cli, vcs, template, overridden, skaffold, call, ret, spawned, git>>

\* middleware: Build skaffold config definition (helmet.js:572-622)
Builds(r) ==
    IF r.ok
    THEN skaffold' = r.out /\ pc' = "command" /\ error' = error
    ELSE skaffold' = skaffold /\ pc' = "failed" /\ error' = r.err

BuildSkaffold ==
    /\ pc = "skaffold"
    /\ Builds(SkaffoldResult(profile, template))
    /\ UNCHANGED <<document, file, cli, vcs, template, profile, overridden, call, ret, spawned, tasks, git>>

\* command deploy: exec('skaffold', args, { input: yaml.safeDump(argv.skaffold) })
\* (helmet.js:663-688); the handler runs once every middleware has resolved
Deploy ==
    /\ pc = "command"
    /\ spawned' = [args  |-> <<"deploy", "--filename", "-">> \o
                            (IF profile.options.repository # <<>>
                             THEN <<"--default-repo", profile.options.repository>>
                             ELSE <<>>),
                   input |-> skaffold]
    /\ pc' = "done"
    /\ UNCHANGED <<document, file, cli, vcs, template, profile, overridden, skaffold, error,
                   call, ret, tasks, git>>

NextVcs ==
    \/ coerceFile
    \/ ExecGit
    \/ SetTemplate
    \/ LoadProfile
    \/ NormalizeProjects
    \/ BuildSkaffold
    \/ Deploy

NextRender ==
    \/ coerceFile
    \/ BuildViewVariables
    \/ LoadProfile
    \/ StartRenders
    \/ CompleteRender
    \/ BuildSkaffold
    \/ Deploy

\* `${argv.profile[key] ? 'true' : 'false'}`: a missing property is falsy
TrueOrFalse(obj, key) == IF key \in DOMAIN obj /\ obj[key] = TRUE THEN "true" ELSE "false"

\* command wear: exec('skaffold', ['dev', ...], { input: yaml.safeDump(argv.skaffold) })
\* (helmet.js:627-658)
Wear ==
    /\ pc = "command"
    /\ spawned' = [args  |-> << "dev", "--filename", "-",
                               <<"--cleanup", TrueOrFalse(profile, "cleanup")>>,
                               <<"--port-forward", TrueOrFalse(profile, "forward")>> >> \o
                            (IF profile.options.repository # <<>>
                             THEN <<"--default-repo", profile.options.repository>>
                             ELSE <<>>),
                   input |-> skaffold]
    /\ pc' = "done"
    /\ UNCHANGED <<document, file, cli, vcs, template, profile, overridden, skaffold, error,
                   call, ret, tasks, git>>

\* a run of either command, wear or deploy, as the command line names it
NextCommand ==
    \/ coerceFile
    \/ BuildViewVariables
    \/ LoadProfile
    \/ NormalizeProjects
    \/ BuildSkaffold
    \/ Deploy
    \/ Wear

\* a direct call of buildImageName(defaultRepo, originalImage)
CallBuildImageName ==
    /\ pc = "call"
    /\ call.fn = "buildImageName"
    /\ ret' = buildImageName(call.defaultRepo, call.originalImage)
    /\ pc' = "return"
    /\ UNCHANGED <<document, file, cli, vcs, template, profile, overridden, skaffold, error, call, spawned, tasks,
                   git>>

\* {{ value | safe }}
CallSafe ==
    /\ pc = "call"
    /\ call.fn = "safe"
    /\ ret' = safe(call.value)
    /\ pc' = "return"
    /\ UNCHANGED <<document, file, cli, vcs, template, profile, overridden, skaffold, error, call, spawned, tasks,
                   git>>

(***************************************************************************)
(* Initial states                                                          *)
(***************************************************************************)
NoDocument == [profiles |-> <<>>]
NoArgs == [profile |-> None, option |-> EmptyObject, metadata |-> EmptyObject, project |-> <<>>]

Commit == <<"a","b","c","d","e","f","0","1","2","3">>
Main == <<"m","a","i","n">>
CleanTaggedless == [tag |-> <<>>, commit |-> Commit, branch |-> Main, status |-> <<>>]

\* everything but pc, document, cli, vcs, call
Blank ==
    /\ file = NoDocument
    /\ template = EmptyObject
    /\ profile = EmptyObject
    /\ overridden = <<>>
    /\ skaffold = EmptyObject
    /\ error = NoError
    /\ ret = None
    /\ spawned = NotSpawned
    /\ tasks = <<>>
    /\ git = <<>>

\* ---- direct calls of buildImageName ----
Slash == <<"/">>
RegistryExample == <<"r","e","g","i","s","t","r","y",".","e","x","a","m","p","l","e",".","c","o","m">>
Team == <<"t","e","a","m">>
App == <<"a","p","p">>
MyRepo == <<"m","y","r","e","p","o">>
OrgAppDev == <<"o","r","g","/","a","p","p",":","d","e","v">>

RepoSegments == {GcrIo, <<"t">>, <<"s">>, <<"r",".","e">>, <<"p","1">>}
ImageSegments == {GcrIo, <<"t">>, <<"s">>, <<"a",":","d">>, <<"o","@","_">>}

Paths(segments, n) == {Join(p, Slash) : p \in SeqsUpTo(segments, n)}

Repositories ==
    Paths(RepoSegments, MaxRepoSegs) \cup {MyRepo, Join(<<RegistryExample, Team>>, Slash)}

Images ==
    (Paths(ImageSegments, MaxImageSegs) \ {<<>>})
        \cup {App, OrgAppDev, Join(<<RegistryExample, Team, App>>, Slash)}

InitImage ==
    /\ pc = "call"
    /\ call \in [fn : {"buildImageName"}, defaultRepo : Repositories, originalImage : Images]
    /\ document = NoDocument /\ cli = NoArgs /\ vcs = CleanTaggedless
    /\ Blank

NextImage == CallBuildImageName

SpecImage == InitImage /\ [][NextImage]_vars

\* ---- direct uses of the safe filter ----
FeatureBranch ==
    <<"f","e","a","t","u","r","e","/","1","5","4","-","s","o","m","e","-",
      "f","e","a","t","u","r","e">>

SafeAlphabet == {"a", "Z", "0", "5", "/", ".", "-", "_"}

InitSafe ==
    /\ pc = "call"
    /\ call \in [fn : {"safe"}, value : SeqsUpTo(SafeAlphabet, MaxSafeLen) \cup {FeatureBranch}]
    /\ document = NoDocument /\ cli = NoArgs /\ vcs = CleanTaggedless
    /\ Blank

NextSafe == CallSafe

SpecSafe == InitSafe /\ [][NextSafe]_vars

(***************************************************************************)
(* Runs of the whole pipeline                                              *)
(***************************************************************************)
NextRun ==
    \/ coerceFile
    \/ BuildViewVariables
    \/ LoadProfile
    \/ NormalizeProjects
    \/ BuildSkaffold
    \/ Deploy

DollarBase == <<"$","b">>
Ci == <<"c","i">>
Dev == <<"d","e","v">>
Qa == <<"q","a">>
Api == <<"a","p","i">>
Web == <<"w","e","b">>
Primary == <<"p","r","i","m","a","r","y">>
ChartPath == <<".","/","c","h","a","r","t">>
ApiContext == <<".","/","a","p","i">>
Ns == <<"n","s">>
WebNs == <<"w","n">>

Entry(name, body) == [name |-> name, body |-> body]

ApiProject ==
    [image |-> [name |-> Api, context |-> ApiContext],
     deployments |-> <<Entry(Primary, [chart |-> ChartPath, namespace |-> Ns])>>]

WebProject ==
    [deployments |-> <<Entry(Primary, [chart |-> ChartPath, namespace |-> WebNs])>>]

Distinct(s) == \A i, j \in 1..Len(s) : i # j => s[i] # s[j]

\* ---- which profile is selected ----
MaxProfiles == 3

ProfileNames == {DollarBase, Ci, Dev, Qa}

SelectBody(name, flagged) ==
    (IF flagged THEN "default" :> TRUE ELSE EmptyObject)
        @@ (IF IsBaseName(name)
            THEN [options |-> [cleanup |-> FALSE]]
            ELSE [projects |-> <<Entry(Api, ApiProject)>>])

SelectDocuments ==
    {[profiles |-> [i \in 1..Len(order) |-> Entry(order[i], SelectBody(order[i], i \in flags))]] :
        order \in {o \in SeqsUpTo(ProfileNames, MaxProfiles) : Len(o) >= 1 /\ Distinct(o)},
        flags \in SUBSET (1..MaxProfiles)}

Requests == {None, <<>>, Ci, Dev, DollarBase, <<"x">>, InjectNameChars}

InitSelect ==
    /\ pc = "file"
    /\ document \in SelectDocuments
    /\ \E r \in Requests :
          cli = [profile |-> r, option |-> EmptyObject, metadata |-> EmptyObject,
                 project |-> <<>>]
    /\ vcs = CleanTaggedless
    /\ call = EmptyObject
    /\ Blank

SpecSelect == InitSelect /\ [][NextRun]_vars

\* ---- the layers of a profile ----
Restrict(obj, keys) == [k \in keys |-> obj[k]]

LayerKeys == {"push", "repository", "namespace", "release"}

BaseLayer ==
    [push |-> FALSE, repository |-> <<"b","r">>,
     namespace |-> <<Text(<<"b","n">>)>>, release |-> <<Text(<<"b","l">>)>>]

NamedLayer ==
    [push |-> TRUE, repository |-> <<"n","r">>,
     namespace |-> <<Text(<<"n","n">>)>>, release |-> <<Text(<<"n","l">>)>>]

Key == <<"k">>
Leaf(v) == [leaf |-> v]

LayerMetadata(v) == {EmptyObject, Key :> Leaf(v)}

Projects == <<Entry(Api, ApiProject), Entry(Web, WebProject)>>

MergeDocuments ==
    {[profiles |->
        << Entry(DollarBase, [options |-> Restrict(BaseLayer, bk), metadata |-> bm]),
           Entry(Ci, [default |-> TRUE, options |-> Restrict(NamedLayer, nk),
                      metadata |-> nm, projects |-> Projects]) >>] :
        bk \in SUBSET LayerKeys, nk \in SUBSET LayerKeys,
        bm \in LayerMetadata(<<"b","m">>), nm \in LayerMetadata(<<"n","m">>)}

InitMerge ==
    /\ pc = "file"
    /\ document \in MergeDocuments
    /\ cli = NoArgs
    /\ vcs = CleanTaggedless
    /\ call = EmptyObject
    /\ Blank

SpecMerge == InitMerge /\ [][NextRun]_vars

\* ---- values given on the command line ----
MaxOverrides == 2

Star == <<"*">>
WQuestionB == <<"w","?","b">>
XStar == <<"x","*">>

Patterns == {Api, Star, WQuestionB, XStar}

OverrideName == <<"o","n">>
OverrideContext == <<".","/","o">>
OverrideNamespace == <<"o","s">>

OverrideValues ==
    { [image |-> [name |-> OverrideName]],
      [image |-> [context |-> OverrideContext]],
      [deployments |-> <<Entry(Primary, [namespace |-> OverrideNamespace])>>] }

Overrides ==
    {o \in SeqsUpTo({Entry(pat, v) : pat \in Patterns, v \in OverrideValues}, MaxOverrides) :
        \A i, j \in 1..Len(o) : i # j => o[i].name # o[j].name}

Fixed == <<"f","x">>

\* options.namespace of the named profile: left to the schema, a template
\* without variables, the empty string
CliNamespaces == {EmptyObject, [namespace |-> <<Text(Fixed)>>], [namespace |-> <<>>]}

CliOptions == {EmptyObject, [repository |-> <<"c","r">>, tag |-> <<Text(<<"c","t">>)>>]}

CliDocuments ==
    {[profiles |->
        << Entry(DollarBase, [options |-> [repository |-> <<"b","r">>]]),
           Entry(Ci, [default |-> TRUE, options |-> ([repository |-> <<"n","r">>] @@ ns),
                      metadata |-> (Key :> Leaf(<<"n","m">>)),
                      projects |-> Projects]) >>] :
        ns \in CliNamespaces}

InitCli ==
    /\ pc = "file"
    /\ document \in CliDocuments
    /\ \E o \in CliOptions, m \in LayerMetadata(<<"c","m">>), pr \in Overrides :
          cli = [profile |-> None, option |-> o, metadata |-> m, project |-> pr]
    /\ vcs = CleanTaggedless
    /\ call = EmptyObject
    /\ Blank

SpecCli == InitCli /\ [][NextRun]_vars

\* ---- templates that use the meta tag ----
Nested(outer, inner, v) == <<outer>> :> [map |-> (<<inner>> :> Leaf(v))]

MetaTrees ==
    { EmptyObject,
      Key :> Leaf(<<"k","v">>),
      Nested("b", "c", <<"n","v">>),
      <<"b", "c">> :> Leaf(<<"l","v">>),       \* the key "b.c" itself
      Nested("b", "d", <<"n","d">>) }

CliMetaTrees == {EmptyObject, Nested("b", "c", <<"c","v">>)}

MetaPaths == {Key, <<"b", "c">>, <<"b">>, <<"injectName">>, <<"z">>}

MetaFields == {"tag", "namespace", "release"}

MetaDocuments ==
    {[profiles |->
        << Entry(Ci, [default |-> TRUE, options |-> (field :> <<Meta(path)>>),
                      metadata |-> md, projects |-> Projects]) >>] :
        field \in MetaFields, path \in MetaPaths, md \in MetaTrees}

InitMeta ==
    /\ pc = "file"
    /\ document \in MetaDocuments
    /\ \E m \in CliMetaTrees :
          cli = [profile |-> None, option |-> EmptyObject, metadata |-> m, project |-> <<>>]
    /\ vcs = CleanTaggedless
    /\ call = EmptyObject
    /\ Blank

SpecMeta == InitMeta /\ [][NextRun]_vars

\* ---- fully-qualified image names ----
MaxFqinSegs == 2

FqinRepoSegments == {GcrIo, <<"t">>, <<"r",".","e">>}
FqinImageSegments == {<<"t">>, <<"a",":","d">>, <<"o","@","_">>, <<"r",".","e">>}

FqinRepositories ==
    Paths(FqinRepoSegments, MaxFqinSegs) \cup {MyRepo, Join(<<RegistryExample, Team>>, Slash)}

FqinImages ==
    (Paths(FqinImageSegments, MaxFqinSegs) \ {<<>>})
        \cup {App, OrgAppDev, Join(<<RegistryExample, Team, App>>, Slash)}

ReleaseTag == <<"v","1",".","0",".","0","-","r","c",".","1">>
Modified == <<" ","M"," ","x">>

FqinVcs ==
    { CleanTaggedless,
      [tag |-> ReleaseTag, commit |-> Commit, branch |-> Main, status |-> <<>>],
      [tag |-> <<>>, commit |-> Commit, branch |-> Main, status |-> Modified] }

FqinDocuments ==
    {[profiles |->
        << Entry(Ci, [default |-> TRUE, options |-> [repository |-> repo],
                      projects |->
                        << Entry(Api, [ApiProject EXCEPT !.image.name = img]),
                           Entry(Web, WebProject) >>]) >>] :
        repo \in FqinRepositories, img \in FqinImages}

InitFqin ==
    /\ pc = "file"
    /\ document \in FqinDocuments
    /\ cli = NoArgs
    /\ vcs \in FqinVcs
    /\ call = EmptyObject
    /\ Blank

SpecFqin == InitFqin /\ [][NextRun]_vars

\* ---- deployments: chart, namespace, release name ----
MaxDeployments == 2

Canary == <<"c","a","n","a","r","y">>
Extra == <<"e","x","t","r","a">>
Dash == <<"-">>

DeploymentNames == {Primary, Canary, Extra}

DeploymentFields == [chart |-> ChartPath, namespace |-> Ns]

\* the deployments of a project: up to MaxDeployments of them, each with or
\* without a chart and a namespace
DeploymentMaps ==
    UNION {
        {[i \in 1..Len(names) |-> Entry(names[i], Restrict(DeploymentFields, fields[i]))] :
            fields \in [1..Len(names) -> SUBSET {"chart", "namespace"}]} :
        names \in {n \in SeqsUpTo(DeploymentNames, MaxDeployments) : Len(n) >= 1 /\ Distinct(n)}}

ProfileDashDeployment ==
    <<Out(<<"profile", "name">>, <<>>), Text(Dash), Out(<<"deployment", "name">>, <<>>)>>

ProjectDashDeployment ==
    <<Out(<<"project", "name">>, <<>>), Text(Dash), Out(<<"deployment", "name">>, <<>>)>>

\* options.namespace / options.release: left to the schema, or written
DeployNamespaces ==
    {EmptyObject, [namespace |-> <<>>], [namespace |-> <<Text(Fixed)>>],
     [namespace |-> ProfileDashDeployment]}

DeployReleases ==
    {EmptyObject, [release |-> <<>>], [release |-> ProjectDashDeployment]}

DeployDocuments ==
    {[profiles |->
        << Entry(Ci, [default |-> TRUE, options |-> (ns @@ rel),
                      projects |->
                        IF apiFirst
                        THEN << Entry(Api, [ApiProject EXCEPT !.deployments = ds]),
                                Entry(Web, WebProject) >>
                        ELSE << Entry(Web, WebProject),
                                Entry(Api, [ApiProject EXCEPT !.deployments = ds]) >>]) >>] :
        ns \in DeployNamespaces, rel \in DeployReleases, ds \in DeploymentMaps,
        apiFirst \in BOOLEAN}

InitDeploy ==
    /\ pc = "file"
    /\ document \in DeployDocuments
    /\ cli = NoArgs
    /\ vcs = CleanTaggedless
    /\ call = EmptyObject
    /\ Blank

SpecDeploy == InitDeploy /\ [][NextRun]_vars

\* ---- renders that settle in any order ----
\* a template that reads the namespace of web's deployment through the profile
WebNamespaceDashDeployment ==
    << Out(<<"profile", "projects", Web, "deployments", Primary, "namespace">>, <<>>),
       Text(Dash), Out(<<"deployment", "name">>, <<>>) >>

\* a template that reads the namespace of api's first deployment
ApiNamespace == << Out(<<"profile", "projects", Api, "deployments", Primary, "namespace">>, <<>>) >>

RenderNamespaces ==
    {EmptyObject, [namespace |-> ProfileDashDeployment],
     [namespace |-> WebNamespaceDashDeployment]}

RenderReleases ==
    {EmptyObject, [release |-> ProjectDashDeployment], [release |-> ApiNamespace]}

RenderDeploymentMaps ==
    { << Entry(Primary, DeploymentFields) >>,
      << Entry(Primary, DeploymentFields), Entry(Canary, DeploymentFields) >>,
      << Entry(Canary, [chart |-> ChartPath]), Entry(Primary, DeploymentFields) >> }

RenderDocuments ==
    {[profiles |->
        << Entry(Ci, [default |-> TRUE, options |-> (ns @@ rel),
                      projects |->
                        IF apiFirst
                        THEN << Entry(Api, [ApiProject EXCEPT !.deployments = ds]),
                                Entry(Web, WebProject) >>
                        ELSE << Entry(Web, WebProject),
                                Entry(Api, [ApiProject EXCEPT !.deployments = ds]) >>]) >>] :
        ns \in RenderNamespaces, rel \in RenderReleases, ds \in RenderDeploymentMaps,
        apiFirst \in BOOLEAN}

InitRender ==
    /\ pc = "file"
    /\ document \in RenderDocuments
    /\ cli = NoArgs
    /\ vcs = CleanTaggedless
    /\ call = EmptyObject
    /\ Blank

SpecRender == InitRender /\ [][NextRender]_vars

\* ---- git queries that give output or fail ----
\* every query either prints something or fails and prints nothing
VcsOutcomes ==
    [tag : {<<>>, ReleaseTag}, commit : {<<>>, Commit}, branch : {<<>>, Main},
     status : {<<>>, Modified}]

BranchDashCommit ==
    << Out(<<"git", "branch">>, <<>>), Text(Dash),
       Out(<<"git", "commit">>, <<[f |-> "short"]>>) >>

VcsDocuments ==
    {[profiles |-> << Entry(Ci, [default |-> TRUE, options |-> o, projects |-> Projects]) >>] :
        o \in {EmptyObject, [tag |-> BranchDashCommit]}}

InitVcs ==
    /\ pc = "file"
    /\ document \in VcsDocuments
    /\ cli = NoArgs
    /\ vcs \in VcsOutcomes
    /\ call = EmptyObject
    /\ Blank

SpecVcs == InitVcs /\ [][NextVcs]_vars

\* ---- the order of the override keys ----
One == <<"1">>
OtherName == <<"o","2">>

\* a key that is an array index: digits without a leading zero
IsArrayIndex(name) ==
    /\ Len(name) >= 1
    /\ \A i \in 1..Len(name) : name[i] \in Digits
    /\ (Len(name) > 1 => name[1] # "0")

DigitValue(c) == CHOOSE d \in 0..9 : ToString(d) = c

RECURSIVE IndexValue(_)
IndexValue(name) ==
    IF name = <<>> THEN 0
    ELSE 10 * IndexValue(SubSeq(name, 1, Len(name) - 1)) + DigitValue(name[Len(name)])

RECURSIVE Ascending(_)
Ascending(entries) ==
    IF entries = <<>> THEN <<>>
    ELSE LET least == CHOOSE i \in 1..Len(entries) :
                         \A j \in 1..Len(entries) :
                             IndexValue(entries[i].name) <= IndexValue(entries[j].name)
         IN  <<entries[least]>>
                \o Ascending(SubSeq(entries, 1, least - 1)
                                \o SubSeq(entries, least + 1, Len(entries)))

\* Object.keys(argv.project): the keys that are array indices first, in
\* ascending order, then the other keys in the order they were inserted
OwnKeys(inserted) ==
    Ascending(SelectSeq(inserted, LAMBDA e : IsArrayIndex(e.name)))
        \o SelectSeq(inserted, LAMBDA e : ~IsArrayIndex(e.name))

OrderPatterns == {Star, One, Api}

OrderValues ==
    { [image |-> [name |-> OverrideName]],
      [image |-> [name |-> OtherName]],
      [image |-> [context |-> OverrideContext]],
      [image |-> [name |-> OtherName, context |-> OverrideContext]] }

\* the --project.<pattern>.<field>=<value> arguments, as the command line
\* has them
OrderLines ==
    {o \in SeqsUpTo({Entry(pat, v) : pat \in OrderPatterns, v \in OrderValues}, MaxOverrides) :
        \A i, j \in 1..Len(o) : i # j => o[i].name # o[j].name}

OrderDocuments ==
    { [profiles |->
        << Entry(Ci, [default |-> TRUE,
                      projects |-> << Entry(One, ApiProject), Entry(Api, ApiProject) >>]) >>] }

InitOrder ==
    /\ pc = "file"
    /\ document \in OrderDocuments
    /\ \E line \in OrderLines :
          cli = [profile |-> None, option |-> EmptyObject, metadata |-> EmptyObject,
                 project |-> OwnKeys(line), line |-> line]
    /\ vcs = CleanTaggedless
    /\ call = EmptyObject
    /\ Blank

SpecOrder == InitOrder /\ [][NextRun]_vars

\* ---- the flags of the base and of the named profile, end to end ----
FlagKeys == {"push", "cleanup", "forward"}

\* options that set some of the flags
FlagOptions == UNION {[ks -> BOOLEAN] : ks \in SUBSET FlagKeys}

EndDocuments ==
    {[profiles |->
        << Entry(DollarBase, [options |-> bo]),
           Entry(Ci, [default |-> TRUE, options |-> no,
                      projects |-> << Entry(Api, ApiProject) >>]) >>] :
        bo \in FlagOptions, no \in FlagOptions}

InitEnd ==
    /\ pc = "file"
    /\ document \in EndDocuments
    /\ cli = NoArgs
    /\ vcs = CleanTaggedless
    /\ call = EmptyObject
    /\ Blank

SpecEnd == InitEnd /\ [][NextCommand]_vars

\* ---- projects with and without a deployments mapping ----
\* a project: with or without an image; without deployments, with an empty
\* mapping, with one deployment
BareProjects(image) ==
    {i @@ d : i \in {EmptyObject, [image |-> image]},
              d \in {EmptyObject, [deployments |-> <<>>],
                     [deployments |-> <<Entry(Primary, DeploymentFields)>>]}}

BareDocuments ==
    {[profiles |->
        << Entry(Ci, [default |-> TRUE,
                      projects |-> << Entry(Api, api), Entry(Web, web) >>]) >>] :
        api \in BareProjects([name |-> Api, context |-> ApiContext]),
        web \in BareProjects([name |-> Web, context |-> ApiContext])}

InitBare ==
    /\ pc = "file"
    /\ document \in BareDocuments
    /\ cli = NoArgs
    /\ vcs \in FqinVcs
    /\ call = EmptyObject
    /\ Blank

SpecBare == InitBare /\ [][NextRun]_vars

\* ---- templates that read computed fields ----
VTag == <<Text(<<"v">>), Out(<<"profile", "name">>, <<>>)>>

NameDashTag ==
    <<Out(<<"deployment", "name">>, <<>>), Text(Dash), Out(<<"profile", "options", "tag">>, <<>>)>>

FqinTemplate == <<Out(<<"project", "image", "fqin">>, <<>>)>>

NamespaceDashName ==
    <<Out(<<"deployment", "namespace">>, <<>>), Text(Dash), Out(<<"deployment", "name">>, <<>>)>>

\* values: { ns: '{{ deployment.namespace }}', rel: '{{ deployment.release }}' }
ComputedValues ==
    [obj |-> [ns  |-> [str |-> <<Out(<<"deployment", "namespace">>, <<>>)>>],
              rel |-> [str |-> <<Out(<<"deployment", "release">>, <<>>)>>]]]

ComputedTags == {EmptyObject, [tag |-> VTag]}

ComputedNamespaces ==
    {EmptyObject, [namespace |-> <<>>], [namespace |-> NameDashTag],
     [namespace |-> FqinTemplate]}

ComputedReleases ==
    {EmptyObject, [release |-> <<>>], [release |-> NamespaceDashName],
     [release |-> NameDashTag], [release |-> FqinTemplate]}

ComputedDocuments ==
    {[profiles |->
        << Entry(Ci, [default |-> TRUE, options |-> (tag @@ ns @@ rel),
                      projects |->
                        << Entry(Api, [image |-> [name |-> Api, context |-> ApiContext],
                                       deployments |->
                                         << Entry(Primary, [chart |-> ChartPath, namespace |-> Ns,
                                                            values |-> ComputedValues]),
                                            Entry(Canary, [chart |-> ChartPath,
                                                           values |-> ComputedValues]) >>]),
                           Entry(Web, [deployments |->
                                         << Entry(Primary, [chart |-> ChartPath, namespace |-> WebNs,
                                                            values |-> ComputedValues]) >>]) >>
                     ]) >>] :
        tag \in ComputedTags, ns \in ComputedNamespaces, rel \in ComputedReleases}

InitComputed ==
    /\ pc = "file"
    /\ document \in ComputedDocuments
    /\ cli = NoArgs
    /\ vcs \in FqinVcs
    /\ call = EmptyObject
    /\ Blank

SpecComputed == InitComputed /\ [][NextRun]_vars

\* the same documents, with the renders of Normalize settling in any order
SpecComputedRender == InitComputed /\ [][NextRender]_vars

\* ---- deployment values: the trees given to renderObject ----
MaxValueLen == 2

Seven == <<"7">>

\* string leaves: a JSON number, a plain text, the meta tag; and the leaves
\* that are no strings
ValueLeaves ==
    { [str |-> <<Text(Seven)>>], [str |-> <<Text(Fixed)>>], [str |-> <<Meta(Key)>>],
      [num |-> Seven], [bool |-> TRUE], [null |-> TRUE] }

ValueNodes ==
    ValueLeaves
        \cup {[arr |-> a] : a \in SeqsUpTo(ValueLeaves, MaxValueLen)}
        \cup {[obj |-> EmptyObject]}
        \cup {[obj |-> ("port" :> l)] : l \in ValueLeaves}

\* values: { replicas: <node> } with or without a second key, host: <leaf>
ValueTrees ==
    {[obj |-> ("replicas" :> n)] : n \in ValueNodes}
        \cup {[obj |-> ("replicas" :> n) @@ ("host" :> l)] : n \in ValueNodes, l \in ValueLeaves}

ValueDocuments ==
    {[profiles |->
        << Entry(Ci, [default |-> TRUE, metadata |-> md,
                      projects |->
                        << Entry(Api, [ApiProject EXCEPT
                              !.deployments =
                                  << Entry(Primary, [chart |-> ChartPath, values |-> v]) >>]) >>
                     ]) >>] :
        v \in ValueTrees, md \in {EmptyObject, Key :> Leaf(<<"k","v">>)}}

InitValues ==
    /\ pc = "file"
    /\ document \in ValueDocuments
    /\ cli = NoArgs
    /\ vcs = CleanTaggedless
    /\ call = EmptyObject
    /\ Blank

SpecValues == InitValues /\ [][NextRun]_vars

\* ---- every stage of a run, failing or not ----
\* documents the schema refuses: a profile without projects, an image
\* without a name
InvalidDocuments ==
    { [profiles |-> << Entry(Ci, [default |-> TRUE, projects |-> <<>>]) >>],
      [profiles |->
        << Entry(Ci, [default |-> TRUE,
                      projects |-> << Entry(Api, [image |-> [context |-> ApiContext]]) >>]) >>] }

InitInvalid ==
    /\ pc = "file"
    /\ document \in InvalidDocuments
    /\ cli = NoArgs
    /\ vcs = CleanTaggedless
    /\ call = EmptyObject
    /\ Blank

InitStages == InitInvalid \/ InitSelect \/ InitCli \/ InitMeta \/ InitValues

SpecStages == InitStages /\ [][NextRun]_vars

(***************************************************************************)
(* Properties                                                              *)
(***************************************************************************)
Loaded == pc \in {"normalize", "skaffold", "command"}

\* the positions of the profiles the document flags default: true
Flagged(doc) ==
    {i \in 1..Len(doc.profiles) :
        "default" \in DOMAIN doc.profiles[i].body /\ doc.profiles[i].body.default}

\* C1: once the profile has been looked for, a valid document that flags no
\* profile as default has failed with the 'no default profile' error, whatever
\* profile was requested; with exactly one flagged profile and no requested
\* name the profile is found and the active profile is the flagged one.
C1_ProfileSelection ==
    (Valid(document) /\ pc \notin {"file", "view", "load"}) =>
        /\ Flagged(document) = {} =>
              pc = "failed" /\ error = [type |-> "NoDefaultProfile"]
        /\ (Cardinality(Flagged(document)) = 1 /\ cli.profile = None) =>
              /\ pc = "failed" => error.type \notin {"NoDefaultProfile", "MissingProfile"}
              /\ Loaded =>
                    \A i \in Flagged(document) : profile.name = document.profiles[i].name

\* the run went through with the second profile of the document as the only
\* flagged one
C1_Witness ==
    /\ pc = "command"
    /\ cli.profile = None
    /\ Flagged(document) = {2}
    /\ profile.name = document.profiles[2].name

\* the body a document gives to the profile of that name
Body(doc, name) == doc.profiles[CHOOSE i \in 1..Len(doc.profiles) : doc.profiles[i].name = name].body

BuiltIn ==
    [push |-> TRUE, repository |-> <<>>,
     namespace |-> DefaultNamespaceTemplate, release |-> DefaultReleaseTemplate]

\* the value of a key over the layers: the named profile's, else the base
\* profile's, else the built-in one
Layered(named, base, builtin, k) ==
    IF k \in DOMAIN named THEN named[k]
    ELSE IF k \in DOMAIN base THEN base[k]
    ELSE builtin[k]

\* C2: without values from the command line, every options key and every
\* metadata key of the resolved profile has the named profile's value when the
\* document sets it there, else the base profile's value when the document
\* sets it there, else the built-in default.
C2_LayerPrecedence ==
    (Loaded /\ Has(document.profiles, DollarBase)
            /\ cli.option = EmptyObject /\ cli.metadata = EmptyObject) =>
        /\ \A k \in LayerKeys :
              profile.options[k] =
                  Layered(Body(document, profile.name).options,
                          Body(document, DollarBase).options, BuiltIn, k)
        /\ \A k \in DOMAIN Body(document, profile.name).metadata
                      \cup DOMAIN Body(document, DollarBase).metadata :
              profile.metadata[k] =
                  Layered(Body(document, profile.name).metadata,
                          Body(document, DollarBase).metadata, EmptyObject, k)

Final == pc \in {"skaffold", "command"}

\* which of the names api, web the patterns api, *, w?b and x* match
ExpectedMatch(name, pattern) ==
    \/ pattern = Star /\ name \in {Api, Web}
    \/ pattern = Api /\ name = Api
    \/ pattern = WQuestionB /\ name = Web

\* the overrides that match the project and set image[sub]
ImageSetters(name, sub) ==
    {i \in 1..Len(cli.project) :
        /\ ExpectedMatch(name, cli.project[i].name)
        /\ "image" \in DOMAIN cli.project[i].body
        /\ sub \in DOMAIN cli.project[i].body.image}

\* the overrides that match the project and set the namespace of a deployment
NamespaceSetters(name) ==
    {i \in 1..Len(cli.project) :
        /\ ExpectedMatch(name, cli.project[i].name)
        /\ "deployments" \in DOMAIN cli.project[i].body}

Last(S) == CHOOSE i \in S : \A j \in S : j <= i

First(S) == CHOOSE i \in S : \A j \in S : i <= j

\* the text a template without tags renders to
PlainText(tpl) == IF tpl = <<>> THEN <<>> ELSE tpl[1].s

\* --option and --metadata values are the values of their keys, and an image
\* field set by the last matching --project override is the value of that field
C3_OptionsMetadataImage ==
    /\ \A k \in DOMAIN cli.option :
          profile.options[k] = IF k = "tag" THEN PlainText(cli.option[k]) ELSE cli.option[k]
    /\ \A k \in DOMAIN cli.metadata : profile.metadata[k] = cli.metadata[k]
    /\ \A j \in 1..Len(profile.projects) : \A sub \in {"name", "context"} :
          ImageSetters(profile.projects[j].name, sub) # {} =>
              profile.projects[j].body.image[sub] =
                  cli.project[Last(ImageSetters(profile.projects[j].name, sub))].body.image[sub]

\* the namespace the last matching override gives to the deployment
OverrideNamespaceOf(name) ==
    cli.project[Last(NamespaceSetters(name))].body.deployments[1].body.namespace

\* C3 as stated: in the final result the values of --option and --metadata
\* are the values of their keys, and a field set by a matching --project
\* override (an image field, a deployment's namespace) has the override's value.
C3_OverrideIsFinal ==
    Final =>
        /\ C3_OptionsMetadataImage
        /\ \A j \in 1..Len(profile.projects) :
              NamespaceSetters(profile.projects[j].name) # {} =>
                  profile.projects[j].body.deployments[1].body.namespace =
                      OverrideNamespaceOf(profile.projects[j].name)

\* C3: in the final result the values of --option and --metadata are the
\* values of their keys and an image field set by a matching --project
\* override has the override's value; a deployment's namespace is what the
\* profile's options.namespace renders to with the override's value as
\* deployment.namespace: the override's value when options.namespace is left
\* to the schema ('{{ deployment.namespace }}') or is empty, the template's
\* own text when it uses no variable.
C3_CliPrecedence ==
    Final =>
        /\ C3_OptionsMetadataImage
        /\ \A j \in 1..Len(profile.projects) :
              NamespaceSetters(profile.projects[j].name) # {} =>
                  profile.projects[j].body.deployments[1].body.namespace =
                      IF "namespace" \in DOMAIN Body(document, Ci).options
                         /\ Body(document, Ci).options.namespace # <<>>
                      THEN PlainText(Body(document, Ci).options.namespace)
                      ELSE OverrideNamespaceOf(profile.projects[j].name)

\* a run with --option, --metadata and two --project overrides, one of them
\* of a namespace, under a profile whose options.namespace uses no variable
C3_Witness ==
    /\ pc = "command"
    /\ "repository" \in DOMAIN cli.option /\ profile.options.repository = cli.option.repository
    /\ Key \in DOMAIN cli.metadata /\ profile.metadata[Key] = cli.metadata[Key]
    /\ Len(cli.project) = 2
    /\ ImageSetters(Web, "name") # {}
    /\ NamespaceSetters(Api) # {}
    /\ profile.projects[1].body.deployments[1].body.namespace = Fixed

\* the overrides whose pattern matches no project
Unmatched ==
    {i \in 1..Len(cli.project) :
        \A j \in 1..Len(profile.projects) :
            ~ExpectedMatch(profile.projects[j].name, cli.project[i].name)}

\* the values of the matching overrides, deep-merged into the project in order
RECURSIVE MergedInto(_, _, _)
MergedInto(body, name, overrides) ==
    IF overrides = <<>> THEN body
    ELSE MergedInto(IF ExpectedMatch(name, Head(overrides).name)
                    THEN MergeProject(body, Head(overrides).body) ELSE body,
                    name, Tail(overrides))

C4_Step ==
    IF Unmatched # {}
    THEN /\ pc' = "failed"
         /\ error' = [type |-> "NoProjectMatches", pattern |-> cli.project[First(Unmatched)].name]
    ELSE /\ Len(overridden') = Len(profile.projects)
         /\ \A j \in 1..Len(profile.projects) :
               /\ overridden'[j].name = profile.projects[j].name
               /\ overridden'[j].body =
                     MergedInto(profile.projects[j].body, profile.projects[j].name, cli.project)
               /\ (\A i \in 1..Len(cli.project) :
                      ~ExpectedMatch(profile.projects[j].name, cli.project[i].name)) =>
                     overridden'[j] = profile.projects[j]

\* C4: the override step fails with an error naming the pattern when a
\* pattern matches no project name (the first such pattern, in the order the
\* overrides were given); otherwise every override's value is deep-merged, in
\* order, into every project its pattern matches, and a project no pattern
\* matches is left as it was.
C4_OverrideApplication == [][pc = "normalize" => C4_Step]_vars

\* the override step has merged an image name into both projects through *,
\* and a namespace into web only through w?b
C4_Witness ==
    /\ pc = "skaffold"
    /\ Len(cli.project) = 2
    /\ cli.project[1].name = Star
    /\ cli.project[2].name = WQuestionB
    /\ overridden[1].body.image.name = OverrideName
    /\ overridden[2].body.image.name = OverrideName
    /\ overridden[1].body.deployments[1].body.namespace = Ns
    /\ overridden[2].body.deployments[1].body.namespace = OverrideNamespace

RegistryTeam == Join(<<RegistryExample, Team>>, Slash)
RegistryTeamApp == Join(<<RegistryExample, Team, App>>, Slash)

C5_Case ==
    /\ pc = "return"
    /\ call.fn = "buildImageName"
    /\ call.defaultRepo = RegistryTeam
    /\ call.originalImage = RegistryTeamApp

\* C5 as stated: buildImageName("registry.example.com/team",
\* "registry.example.com/team/app") returns the image unchanged.
C5_Unchanged == C5_Case => ret = RegistryTeamApp

\* C5: buildImageName("registry.example.com/team",
\* "registry.example.com/team/app") returns
\* "registry.example.com/team/registry_example_com_team_app".
C5_Mangled ==
    C5_Case =>
        ret = RegistryTeam \o Slash \o
              <<"r","e","g","i","s","t","r","y","_","e","x","a","m","p","l","e","_",
                "c","o","m","_","t","e","a","m","_","a","p","p">>

C5_Witness == C5_Case /\ ret # call.originalImage

\* the number of places where p occurs in s
Occurrences(s, p) ==
    Cardinality({i \in 1..(Len(s) - Len(p) + 1) : SubSeq(s, i, i + Len(p) - 1) = p})

\* C6: for a prefix starting with gcr.io, an image that starts with the prefix
\* is returned unchanged, and the result starts with the prefix and holds it
\* at most as often as the image did (once when the image did not hold it).
C6_PrefixOnce ==
    (pc = "return" /\ call.fn = "buildImageName" /\ startsWith(call.defaultRepo, GcrIo)) =>
        /\ startsWith(call.originalImage, call.defaultRepo) => ret = call.originalImage
        /\ startsWith(ret, call.defaultRepo)
        /\ Occurrences(ret, call.defaultRepo) <=
              IF Occurrences(call.originalImage, call.defaultRepo) = 0 THEN 1
              ELSE Occurrences(call.originalImage, call.defaultRepo)

\* the image name with every '/', '.', ':' and '@' replaced by '_'
Underscored(name) ==
    [i \in 1..Len(name) |-> IF name[i] \in {"/", ".", ":", "@"} THEN "_" ELSE name[i]]

ExpectedImageName(repo, name) ==
    IF repo = <<>> THEN name ELSE repo \o Slash \o Underscored(name)

\* the default tag: the first eight characters of the git tag, or of the
\* commit when HEAD has no tag, and -dirty when the work tree has changes
ExpectedTag ==
    SubSeq(IF vcs.tag # <<>> THEN vcs.tag ELSE vcs.commit, 1, 8)
        \o (IF vcs.status # <<>> THEN DirtySuffix ELSE <<>>)

\* C7: for a repository that is empty or does not start with gcr.io, the
\* fully-qualified name of every project with an image is the image name
\* itself (empty repository) or repository + "/" + the image name with every
\* '/', '.', ':' and '@' replaced by '_' (one path segment), followed by ":"
\* and the rendered tag.
C7_QualifiedName ==
    (Final /\ ~startsWith(Body(document, Ci).options.repository, GcrIo)) =>
        /\ profile.options.tag = ExpectedTag
        /\ \A j \in 1..Len(profile.projects) :
              "image" \in DOMAIN Body(document, Ci).projects[j].body =>
                  /\ profile.projects[j].body.image.fqin =
                        ExpectedImageName(Body(document, Ci).options.repository,
                                          Body(document, Ci).projects[j].body.image.name)
                            \o <<":">> \o profile.options.tag
                  /\ \A i \in 1..Len(Underscored(Body(document, Ci).projects[j].body.image.name)) :
                        Underscored(Body(document, Ci).projects[j].body.image.name)[i] # "/"

\* repository "myrepo" and image "org/app:dev" at commit abcdef0123
C7_Witness ==
    /\ pc = "command"
    /\ Body(document, Ci).options.repository = MyRepo
    /\ Body(document, Ci).projects[1].body.image.name = OrgAppDev
    /\ vcs = CleanTaggedless
    /\ profile.projects[1].body.image.fqin =
          <<"m","y","r","e","p","o","/","o","r","g","_","a","p","p","_","d","e","v",":",
            "a","b","c","d","e","f","0","1">>

\* the option of the document whose template is one meta tag
UsesMeta(field) ==
    /\ field \in DOMAIN Body(document, Ci).options
    /\ Len(Body(document, Ci).options[field]) = 1
    /\ Body(document, Ci).options[field][1].t = "meta"

MetaPath(field) == Body(document, Ci).options[field][1].path

\* the metadata of the active profile: the document's, then the command line's
ActiveMetadata == MergeMetadata(Body(document, Ci).metadata, cli.metadata)

\* what the metadata holds at a dotted path, read segment by segment
RECURSIVE At(_, _)
At(tree, segs) ==
    IF segs = <<>> THEN {tree}
    ELSE IF IsMap(tree) /\ <<Head(segs)>> \in DOMAIN tree.map
    THEN At(tree.map[<<Head(segs)>>], Tail(segs))
    ELSE {}

\* the templates of that option have been rendered, or the run has failed
RenderedOrFailed(field) ==
    IF field = "tag" THEN pc \notin {"file", "view", "load"}
    ELSE pc \notin {"file", "view", "load", "normalize"}

\* C8: a template with a meta tag whose path the active profile's metadata
\* holds neither as a key nor as a dotted path makes the run fail with the
\* missing-metadata error naming the path.
C8_MissingFails ==
    \A field \in MetaFields :
        (UsesMeta(field) /\ RenderedOrFailed(field)
            /\ MetaPath(field) \notin DOMAIN ActiveMetadata
            /\ At([map |-> ActiveMetadata], MetaPath(field)) = {}) =>
            pc = "failed" /\ error = [type |-> "MissingMetadata", path |-> MetaPath(field)]

\* what the option rendered to, in every place the run keeps it
RenderedTo(field, v) ==
    IF field = "tag" THEN profile.options.tag = v
    ELSE Final =>
            \A j \in 1..Len(profile.projects) :
                \A d \in 1..Len(profile.projects[j].body.deployments) :
                    profile.projects[j].body.deployments[d].body[field] = v

\* C9: when the active profile's metadata holds a value at the dotted path of
\* a meta tag, nested maps included, the tag renders to that value and the run
\* does not fail with the missing-metadata error.
C9_DottedPathResolves ==
    \A field \in MetaFields :
        (UsesMeta(field) /\ RenderedOrFailed(field)) =>
            \A v \in At([map |-> ActiveMetadata], MetaPath(field)) :
                ~IsMap(v) => (pc # "failed" /\ RenderedTo(field, v.leaf))

\* C10: the safe filter turns "feature/154-some-feature" into
\* "feature_154-some-feature", and for every input replaces each character
\* outside letters, digits, '-' and '_' by '_' and keeps every other one.
C10_Sanitised ==
    (pc = "return" /\ call.fn = "safe") =>
        /\ Len(ret) = Len(call.value)
        /\ \A i \in 1..Len(ret) :
              ret[i] = IF call.value[i] \in Lower \cup Upper \cup Digits \cup {"-", "_"}
                       THEN call.value[i] ELSE "_"
        /\ call.value = FeatureBranch =>
              ret = <<"f","e","a","t","u","r","e","_","1","5","4","-","s","o","m","e","-",
                      "f","e","a","t","u","r","e">>

\* C11: the active profile of a run that got past the selection is never a
\* base profile (a profile whose name begins with '$'), whether it was
\* requested by name or flagged default.
C11_BaseNeverActive == Loaded => ~IsBaseName(profile.name)

\* C12: every artifact of a produced skaffold configuration (one per project
\* with an image block) has a non-empty image name and a non-empty context,
\* also when a --project override introduced or changed the image block.
C12_ImageComplete ==
    pc = "command" =>
        \A i \in 1..Len(skaffold.artifacts) :
            /\ "image" \in DOMAIN skaffold.artifacts[i]
            /\ skaffold.artifacts[i].image # <<>>
            /\ "context" \in DOMAIN skaffold.artifacts[i]
            /\ skaffold.artifacts[i].context # <<>>

\* C13: every release of a produced skaffold configuration has a chart path
\* and a non-empty namespace (a deployment lacking chart or namespace makes
\* the run fail instead).
C13_DeploymentComplete ==
    pc = "command" =>
        \A i \in 1..Len(skaffold.releases) :
            /\ "chartPath" \in DOMAIN skaffold.releases[i]
            /\ "namespace" \in DOMAIN skaffold.releases[i]
            /\ skaffold.releases[i].namespace # <<>>

\* the stage about to run fails on its input
StageFails ==
    \/ pc = "file" /\ ~Valid(document)
    \/ pc = "load" /\ ~LoadProfileResult(file, cli, template).ok
    \/ pc = "normalize" /\ ~NormalizeResult(profile, cli, template).ok
    \/ pc = "skaffold" /\ ~SkaffoldResult(profile, template).ok

\* every stage of the run, recomputed from the document and the command
\* line, completed without error and gave the document handed over
AllStagesCompleted ==
    /\ Valid(document)
    /\ LoadProfileResult(WithDefaults(document), cli, template).ok
    /\ NormalizeResult(LoadProfileResult(WithDefaults(document), cli, template).out,
                       cli, template).ok
    /\ SkaffoldResult(profile, template).ok
    /\ spawned.input = SkaffoldResult(profile, template).out

\* C14: there is no partial-success output: a stage that fails (schema
\* validation, profile resolution, override application, a template render)
\* puts the run in the error state, a run in the error state takes no
\* further step and hands nothing to skaffold, and a document is handed to
\* skaffold only when every stage completed without error.
C14_NoPartialOutput ==
    /\ [][StageFails => pc' = "failed" /\ error' # NoError /\ spawned' = NotSpawned]_vars
    /\ [][pc # "failed"]_vars
    /\ [](error # NoError => pc = "failed" /\ spawned = NotSpawned)
    /\ [](spawned # NotSpawned => error = NoError /\ AllStagesCompleted)

\* a run that failed in the last stage, after every earlier stage had
\* completed: nothing was handed over
C14_Witness ==
    /\ pc = "failed"
    /\ error.type = "MissingMetadata"
    /\ profile # EmptyObject
    /\ document \in ValueDocuments
    /\ spawned = NotSpawned

\* the renders settle project by project, in declaration order
RECURSIVE InOrder(_, _, _), InOrderAt(_, _, _, _), InOrderNext(_, _, _, _)
InOrder(prof, variables, ts) ==
    IF Settled(ts) THEN Ok(prof)
    ELSE InOrderAt(prof, variables, ts,
            CHOOSE i \in 1..Len(ts) :
                ts[i].todo # <<>> /\ \A j \in 1..(i - 1) : ts[j].todo = <<>>)

InOrderAt(prof, variables, ts, i) ==
    IF ~ts[i].pending.ok THEN ts[i].pending
    ELSE InOrderNext(Assign(prof, i, Head(ts[i].todo), ts[i].pending.out), variables, ts, i)

InOrderNext(prof, variables, ts, i) == InOrder(prof, variables, Resumed(prof, variables, ts, i))

InOrderFrom(q, variables) == InOrder(q, variables, Called(q, variables))

\* the target document of the run in which the renders settle in order
InOrderSkaffold(loaded) ==
    SkaffoldResult(
        InOrderFrom(BeforeRenders(loaded, ApplyOverrides(loaded.projects, cli.project)).out,
                    template).out,
        template).out

DeclaredProjects == Body(document, Ci).projects

DeclaredDeployments(j) == DeclaredProjects[j].body.deployments

\* C15: the target document has one artifact per project with an image and
\* one release per deployment, in the declaration order of the projects and
\* of their deployments, and it is the same document in whatever order the
\* concurrently awaited renders settle: the one of the run in which they
\* settle project by project.
C15_SameForEveryInterleaving ==
    pc = "done" =>
        /\ Len(spawned.input.artifacts)
              = Cardinality({j \in 1..Len(DeclaredProjects) :
                                "image" \in DOMAIN DeclaredProjects[j].body})
        /\ Len(spawned.input.releases)
              = Len(DeclaredDeployments(1)) + Len(DeclaredDeployments(2))
        /\ \A j \in 1..Len(DeclaredDeployments(1)) :
              spawned.input.releases[j].chartPath = ChartPath
        /\ spawned.input = InOrderSkaffold(LoadProfileResult(file, cli, template).out)

DeclaredOf(j) ==
    [i \in 1..Len(DeclaredDeployments(j)) |->
        [project |-> DeclaredProjects[j].name,
         name    |-> DeclaredDeployments(j)[i].name,
         body    |-> DeclaredDeployments(j)[i].body]]

\* the deployments as the document declares them, project after project
Declared == DeclaredOf(1) \o DeclaredOf(2)

WrittenOptions == Body(document, Ci).options

\* the namespace of the release entry: that of the written template; the
\* declared one when no template is written or the written one is empty
NamespaceAsExpected(entry, d) ==
    IF "namespace" \in DOMAIN WrittenOptions /\ WrittenOptions.namespace = <<Text(Fixed)>>
    THEN "namespace" \in DOMAIN entry /\ entry.namespace = Fixed
    ELSE IF "namespace" \in DOMAIN WrittenOptions
            /\ WrittenOptions.namespace = ProfileDashDeployment
    THEN "namespace" \in DOMAIN entry /\ entry.namespace = Ci \o Dash \o d.name
    ELSE "namespace" \in DOMAIN d.body =>
            "namespace" \in DOMAIN entry /\ entry.namespace = d.body.namespace

\* the release name: that of the written template; the deployment's name
\* when no template is written; none when the written one is empty (a
\* deployment cannot declare one: IDeployment has no such property)
ReleaseAsExpected(entry, d) ==
    IF "release" \notin DOMAIN WrittenOptions
    THEN "name" \in DOMAIN entry /\ entry.name = d.name
    ELSE IF WrittenOptions.release = ProjectDashDeployment
    THEN "name" \in DOMAIN entry /\ entry.name = d.project \o Dash \o d.name
    ELSE "name" \notin DOMAIN entry

\* C16: in the release entry of every deployment the namespace is the
\* rendering of options.namespace when that template is configured and the
\* deployment's declared namespace, unchanged, when it is not (empty, or
\* left to the schema's default, which renders the declared namespace); the
\* release name is the rendering of options.release when configured, and is
\* not rendered when options.release is empty.
C16_RenderedOnlyIfConfigured ==
    pc = "done" =>
        /\ Len(spawned.input.releases) = Len(Declared)
        /\ \A k \in 1..Len(Declared) :
              /\ NamespaceAsExpected(spawned.input.releases[k], Declared[k])
              /\ ReleaseAsExpected(spawned.input.releases[k], Declared[k])

\* options.namespace is empty and options.release is a written template,
\* and a deployment that declares a namespace was handed over
C16_Witness ==
    /\ pc = "done"
    /\ WrittenOptions = [namespace |-> <<>>, release |-> ProjectDashDeployment]
    /\ \E k \in 1..Len(Declared) :
          /\ "namespace" \in DOMAIN Declared[k].body
          /\ Declared[k].project = Api
          /\ spawned.input.releases[k].namespace = Ns
          /\ spawned.input.releases[k].name = Api \o Dash \o Declared[k].name

OrNone(stdout) == IF stdout = <<>> THEN None ELSE stdout

Short(s) == SubSeq(s, 1, IF Len(s) < ShortSize THEN Len(s) ELSE ShortSize)

\* the tag of the final git context, for the two tag templates of VcsDocuments
TagOfFinalContext ==
    IF "tag" \in DOMAIN Body(document, Ci).options
    THEN vcs.branch \o Dash \o Short(vcs.commit)
    ELSE Short(IF vcs.tag # <<>> THEN vcs.tag ELSE vcs.commit)
            \o (IF vcs.status # <<>> THEN DirtySuffix ELSE <<>>)

\* the Load profile middleware, which renders options.tag, takes its step
TagRenderingStarts == pc = "load" /\ pc' # "load"

\* C18: the rendering of the tag template starts only when the four git
\* queries (tag, commit, branch, status) have settled, and the tag is the
\* rendering against the final git context.
C18_TagAfterAllQueries ==
    [][TagRenderingStarts =>
          /\ Len(git) = 4
          /\ git = <<vcs.tag, vcs.commit, vcs.branch, vcs.status>>
          /\ pc' = "normalize"
          /\ profile'.options.tag = TagOfFinalContext]_vars

\* the tag of a tagged, modified workspace: the status, the last query, is in it
C18_Witness ==
    /\ pc = "normalize"
    /\ Len(git) = 4
    /\ vcs.tag = ReleaseTag /\ vcs.status = Modified
    /\ "tag" \notin DOMAIN Body(document, Ci).options
    /\ profile.options.tag = Short(ReleaseTag) \o DirtySuffix

DeclaredValues == DeclaredDeployments(1)[1].body.values

HasKey == Key \in DOMAIN Body(document, Ci).metadata

\* some string leaf of the tree cannot be rendered: its meta tag names
\* metadata the profile does not have
RECURSIVE Unrenderable(_)
Unrenderable(v) ==
    CASE DOMAIN v = {"str"} -> v.str = <<Meta(Key)>> /\ ~HasKey
      [] DOMAIN v = {"arr"} -> \E i \in 1..Len(v.arr) : Unrenderable(v.arr[i])
      [] DOMAIN v = {"obj"} -> \E k \in DOMAIN v.obj : Unrenderable(v.obj[k])
      [] OTHER -> FALSE

\* the tree with the same keys and positions, every string leaf replaced by
\* its decoded rendering, every other leaf as it is
RECURSIVE Deep(_)
Deep(v) ==
    CASE DOMAIN v = {"str"} ->
            IF v.str = <<Text(Seven)>> THEN [num |-> Seven]
            ELSE IF v.str = <<Text(Fixed)>> THEN [text |-> Fixed]
            ELSE [text |-> <<"k", "v">>]
      [] DOMAIN v = {"arr"} -> [arr |-> [i \in 1..Len(v.arr) |-> Deep(v.arr[i])]]
      [] DOMAIN v = {"obj"} -> [obj |-> [k \in DOMAIN v.obj |-> Deep(v.obj[k])]]
      [] OTHER -> v

\* C19: renderObject gives a structure with the keys and positions of its
\* input, every string leaf replaced by its rendering (JSON-decoded when it
\* decodes, plain text otherwise) and every number, boolean and null leaf
\* unchanged, and it fails only when a string leaf cannot be rendered.
C19_RenderDeep ==
    /\ pc = "failed" => Unrenderable(DeclaredValues)
    /\ pc = "done" => spawned.input.releases[1].overrides = Deep(DeclaredValues)

\* the patterns of OrderPatterns: '*' matches every name, a name matches itself
PatternMatches(pattern, name) == pattern = Star \/ pattern = name

Sets(entry, field) == field \in DOMAIN entry.body.image

SetsFor(order, i, project, field) ==
    PatternMatches(order[i].name, project.name) /\ Sets(order[i], field)

\* of the overrides that match the project and set a field, the last one in
\* the given order gives the project's value: a later one wins over an
\* earlier one, and a field only an earlier one sets is kept
LaterWins(order, project) ==
    \A field \in {"name", "context"} :
        \A i \in 1..Len(order) :
            (/\ SetsFor(order, i, project, field)
             /\ \A j \in (i + 1)..Len(order) : ~SetsFor(order, j, project, field)) =>
                project.body.image[field] = order[i].body.image[field]

\* C20 as stated: the overrides are applied in the order the command line
\* inserted them into the mapping; of two patterns that match a project and
\* set the same field the later inserted one wins, and a field set only by
\* the earlier one is kept.
C20_InsertionOrder ==
    pc = "skaffold" => \A k \in 1..Len(overridden) : LaterWins(cli.line, overridden[k])

\* C20: the overrides are applied in the order of Object.keys(argv.project)
\* (the insertion order, but for patterns that are array indices, which come
\* first); of two patterns that match a project and set the same field the
\* later one wins, and a field set only by the earlier one is kept.
C20_KeyOrder ==
    pc = "skaffold" => \A k \in 1..Len(overridden) : LaterWins(cli.project, overridden[k])

\* two patterns matched api; both set the name, only the first the context
C20_Witness ==
    /\ pc = "skaffold"
    /\ cli.project = << Entry(Api, [image |-> [name |-> OtherName, context |-> OverrideContext]]),
                        Entry(Star, [image |-> [name |-> OverrideName]]) >>
    /\ Get(overridden, Api).image.name = OverrideName
    /\ Get(overridden, Api).image.context = OverrideContext

BaseOptions == Body(document, DollarBase).options

NamedOptions == Body(document, Ci).options

\* the base profile sets options.cleanup to false and the profile ci, which
\* does not set it, sets options.push to true
EndToEndDocument ==
    /\ "cleanup" \in DOMAIN BaseOptions /\ BaseOptions.cleanup = FALSE
    /\ "cleanup" \notin DOMAIN NamedOptions
    /\ "push" \in DOMAIN NamedOptions /\ NamedOptions.push = TRUE

\* C21: end to end, for a base profile with options.cleanup false, a default
\* profile ci with options.push true, one project api (image api, context
\* ./api) with one deployment primary (chart ./chart, namespace ns) and no
\* command-line values: the target document has exactly one release, with
\* namespace ns and chartPath ./chart, exactly one artifact, with image api,
\* and the resolved profile has cleanup false and push true.
C21_EndToEnd ==
    (pc = "done" /\ EndToEndDocument) =>
        /\ Len(spawned.input.releases) = 1
        /\ spawned.input.releases[1].namespace = Ns
        /\ spawned.input.releases[1].chartPath = ChartPath
        /\ Len(spawned.input.artifacts) = 1
        /\ spawned.input.artifacts[1].image = Api
        /\ spawned.input.artifacts[1].context = ApiContext
        /\ spawned.input.push = TRUE
        /\ profile.name = Ci
        /\ profile.options.cleanup = FALSE
        /\ profile.options.push = TRUE

\* the document of the claim, with nothing else set, was resolved and handed over
C21_Witness ==
    /\ pc = "done"
    /\ BaseOptions = [cleanup |-> FALSE]
    /\ NamedOptions = [push |-> TRUE]
    /\ Len(spawned.input.releases) = 1
    /\ profile.options.cleanup = FALSE

\* the tag as the document and the repository give it
ResolvedTag == IF "tag" \in DOMAIN WrittenOptions THEN <<"v">> \o Ci ELSE ExpectedTag

\* what '{{ project.image.fqin }}' writes: name:tag, nothing without an image
ExpectedFqin(d) ==
    IF "image" \in DOMAIN Get(DeclaredProjects, d.project)
    THEN Get(DeclaredProjects, d.project).image.name \o <<":">> \o ResolvedTag
    ELSE <<>>

DeclaredNamespace(d) == IF "namespace" \in DOMAIN d.body THEN d.body.namespace ELSE <<>>

Written(key) == key \in DOMAIN WrittenOptions /\ WrittenOptions[key] # <<>>

\* the text of deployment.namespace once the namespace pass is over
ExpectedNamespace(d) ==
    IF ~Written("namespace") THEN DeclaredNamespace(d)
    ELSE IF WrittenOptions.namespace = NameDashTag THEN d.name \o Dash \o ResolvedTag
    ELSE ExpectedFqin(d)

\* the text of deployment.release once the release pass is over
ExpectedRelease(d) ==
    IF "release" \notin DOMAIN WrittenOptions THEN d.name
    ELSE IF WrittenOptions.release = NamespaceDashName
    THEN ExpectedNamespace(d) \o Dash \o d.name
    ELSE IF WrittenOptions.release = NameDashTag THEN d.name \o Dash \o ResolvedTag
    ELSE IF WrittenOptions.release = FqinTemplate THEN ExpectedFqin(d)
    ELSE <<>>

\* what the values templates of the deployment saw
SeenNamespace(entry) == entry.overrides.obj.ns

SeenRelease(entry) == entry.overrides.obj.rel

\* the namespace and release templates were rendered after the name, the tag
\* and the fqin, the release template after the namespace
RenderedInOrder(entry, d) ==
    /\ "namespace" \in DOMAIN entry /\ entry.namespace = ExpectedNamespace(d)
    /\ "name" \in DOMAIN entry /\ entry.name = ExpectedRelease(d)

\* C22 as stated: the namespace and release templates of every deployment
\* see the injected name, the rendered tag and the fqin, the release template
\* sees the rendered namespace, and the values templates see the rendered
\* namespace and the rendered release name, which are never unset.
C22_SeesComputedFields ==
    pc = "done" =>
        /\ profile.options.tag = ResolvedTag
        /\ Len(spawned.input.releases) = Len(Declared)
        /\ \A k \in 1..Len(Declared) :
              /\ RenderedInOrder(spawned.input.releases[k], Declared[k])
              /\ SeenNamespace(spawned.input.releases[k])
                    = [text |-> spawned.input.releases[k].namespace]
              /\ SeenRelease(spawned.input.releases[k])
                    = [text |-> spawned.input.releases[k].name]

\* the field as the release entry has it, nothing when it is unset
TextOf(entry, field) == IF field \in DOMAIN entry THEN entry[field] ELSE <<>>

\* C22, amended: the same, for the templates that are configured (written and
\* not empty, or left to the schema's default).  When options.namespace is
\* empty the later templates see the declared namespace, or nothing when
\* none is declared; when options.release is empty the release name is unset
\* and the values templates read an unset value.
C22_SeesResolvedWhenConfigured ==
    pc = "done" =>
        /\ profile.options.tag = ResolvedTag
        /\ Len(spawned.input.releases) = Len(Declared)
        /\ \A k \in 1..Len(Declared) :
              /\ ("namespace" \in DOMAIN WrittenOptions => Written("namespace"))
                    => /\ "namespace" \in DOMAIN spawned.input.releases[k]
                       /\ spawned.input.releases[k].namespace = ExpectedNamespace(Declared[k])
              /\ ("release" \in DOMAIN WrittenOptions => Written("release"))
                    => /\ "name" \in DOMAIN spawned.input.releases[k]
                       /\ spawned.input.releases[k].name = ExpectedRelease(Declared[k])
              /\ ~("namespace" \in DOMAIN WrittenOptions => Written("namespace"))
                    => /\ "namespace" \in DOMAIN spawned.input.releases[k]
                            <=> "namespace" \in DOMAIN Declared[k].body
                       /\ TextOf(spawned.input.releases[k], "namespace")
                            = DeclaredNamespace(Declared[k])
              /\ ~("release" \in DOMAIN WrittenOptions => Written("release"))
                    => "name" \notin DOMAIN spawned.input.releases[k]
              /\ TextOf(spawned.input.releases[k], "name") = ExpectedRelease(Declared[k])
              /\ SeenNamespace(spawned.input.releases[k])
                    = [text |-> TextOf(spawned.input.releases[k], "namespace")]
              /\ SeenRelease(spawned.input.releases[k])
                    = [text |-> TextOf(spawned.input.releases[k], "name")]

\* the namespace template reads the deployment's name and the tag, the
\* release template reads the namespace, and the values of api's first
\* deployment were rendered with both
C22_Witness ==
    /\ pc = "done"
    /\ WrittenOptions = [tag |-> VTag, namespace |-> NameDashTag, release |-> NamespaceDashName]
    /\ spawned.input.releases[1].namespace = Primary \o Dash \o <<"v">> \o Ci
    /\ spawned.input.releases[1].name = Primary \o Dash \o <<"v">> \o Ci \o Dash \o Primary
    /\ SeenNamespace(spawned.input.releases[1]) = [text |-> Primary \o Dash \o <<"v">> \o Ci]
    /\ SeenRelease(spawned.input.releases[1])
          = [text |-> Primary \o Dash \o <<"v">> \o Ci \o Dash \o Primary]

\* C23: the flags the wear command gives to skaffold are the resolved
\* profile's options: --cleanup=true exactly when options.cleanup is true,
\* --port-forward=true exactly when options.forward is true.
C23_WearFlags ==
    (pc = "done" /\ spawned.args[1] = "dev") =>
        /\ spawned.args[4] = <<"--cleanup", IF profile.options.cleanup THEN "true" ELSE "false">>
        /\ spawned.args[5]
              = <<"--port-forward", IF profile.options.forward THEN "true" ELSE "false">>

DeclaredCount(j) ==
    IF "deployments" \in DOMAIN DeclaredProjects[j].body THEN Len(DeclaredDeployments(j)) ELSE 0

WithImage == {j \in 1..Len(DeclaredProjects) : "image" \in DOMAIN DeclaredProjects[j].body}

\* C24: a project that declares no deployments mapping does not abort the
\* resolution: the run does not fail, the project gives no release (the
\* releases are those of the declared deployments) and every declared image
\* is an artifact.
C24_NoDeploymentsResolves ==
    /\ pc # "failed"
    /\ pc = "done" =>
          /\ Len(spawned.input.releases) = DeclaredCount(1) + DeclaredCount(2)
          /\ Len(spawned.input.artifacts) = Cardinality(WithImage)
          /\ \A j \in WithImage :
                \E a \in 1..Len(spawned.input.artifacts) :
                    spawned.input.artifacts[a].image = DeclaredProjects[j].body.image.name
====
